---- MODULE Spec2Model ----
(***************************************************************************)
(* Model of the x402 pay-per-unlock quiz platform:                         *)
(*   - the Hono server as assembled in index.ts (layers in registration    *)
(*     order, the x402 payment middleware, the quiz and rag routers),      *)
(*   - the client's gated fetch, wrapFetchWithPaymentSolana,               *)
(*   - the quiz client state machine of QuizShell / PaymentGate,           *)
(*   - the progress store of web/lib/quest.ts,                             *)
(*   - the knowledge lookup of server/rag/knowledge.ts and its routes.     *)
(***************************************************************************)
EXTENDS Integers, Sequences, FiniteSets, Bags, TLC

VARIABLES
    \* ---- server (routes/quiz.ts, index.ts) ----
    sessions,       \* the Map sessionId -> QuizSession
    clock,          \* Date.now()
    paidBefore,     \* some earlier request was paid for and let through
    lastReq,        \* the request being answered (route "" between requests)
    lastResp,       \* the response it gets
    prevSessions,   \* the Map as it was when that request arrived
    handlerRan,     \* the route handler that ran for it ("none" if none did)
    suspended,      \* handlers awaiting c.req.json(), in the order their requests came
    served,         \* the requests whose handlers have run, in the order they resumed
    \* ---- wrapFetchWithPaymentSolana (web/lib/x402-solana.ts) ----
    fpc,            \* the await the call is at; "idle" before the call, "done" after
    wallet,         \* the WalletContextState passed in
    chain,          \* what the RPC node knows: token accounts and balance
    response,       \* the local variable response
    first,          \* the response the initial fetch got
    requirements,   \* the payment requirements taken from the 402 body
    transaction,    \* the transaction under construction
    txSig,          \* the settlement signature recovered after a 200
    poll,           \* findTransactionSignature: attempt i, signatures listed, index j
    result,         \* how the returned promise settled
    sent,           \* requests sent to the resource URL, in order
    signRequests,   \* calls of wallet.signTransaction
    rpcCalls,       \* calls on connection
    failed,         \* the awaited steps that rejected
    \* ---- QuizShell and PaymentGate (web/components/quiz) ----
    state,              \* QuizState
    quizSession,        \* QuizSession, NoSession for null
    question,           \* id of the question held, 0 for null
    selected,     \* an option is selected
    timeLeft,           \* seconds left on the countdown
    isLoadingQuestion,  \* the ref guarding loadQuestion
    currentSession,     \* the session captured by the load in flight
    rendered,           \* what the handlers of the last render captured
    timers,             \* pending setTimeout callbacks, oldest first
    submits,            \* POST /quiz/submit calls awaiting their response
    payments,           \* PaymentGate handlePay calls awaiting wrapFetchWithPaymentSolana
    paying,             \* the mounted PaymentGate's paying flag
    owed,               \* questions answered wrong or timed out and not yet paid for
    \* ---- the progress store (web/lib/quest.ts) ----
    quest,          \* localStorage["x402-quest-state"], NoItem while nothing is stored
    questNow,       \* the UTC day the browser's clock shows
    questCall,      \* the last call of awardUnlock or recordDailyCompletion
    awarded,        \* the (topic, id) pairs passed to awardUnlock since the last reset
    unlockXp,       \* the XP those calls have added since the last reset
    \* ---- knowledge lookup (server/rag/knowledge.ts, routes/rag.ts) ----
    zone,           \* the server process's offset from UTC, "unset" before it starts
    preview,        \* the last POST /rag/preview and its answer
    daily,          \* the last GET /rag/daily and its answer
    dailyBefore     \* the GET /rag/daily before that one

\* What the requests served one at a time leave alone
concurrentVars == <<suspended, served>>

serverVars == <<sessions, clock, paidBefore, lastReq, lastResp, prevSessions, handlerRan,
                concurrentVars>>

fetchVars == <<fpc, wallet, chain, response, first, requirements, transaction, txSig, poll,
               result, sent, signRequests, rpcCalls, failed>>

clientVars == <<state, quizSession, question, selected, timeLeft, isLoadingQuestion,
                currentSession, rendered, timers, submits, payments, paying, owed>>

\* What the quiz client leaves alone in the progress store
questHistory == <<questNow, questCall, awarded, unlockXp>>

questVars == <<quest, questHistory>>

ragVars == <<zone, preview, daily, dailyBefore>>

vars == <<serverVars, fetchVars, clientVars, questVars, ragVars>>

----------------------------------------------------------------------------
(* Bounds of the model *)

MaxClock == 1

\* Requests that overlap at the server
MaxConcurrent == 3

\* Signatures one getSignaturesForAddress call lists (the code asks for at most 5)
MaxSigs == 1

\* Question ids the server can hand out for the chosen topic
MaxQuestions == 2

\* Pending setTimeout callbacks, and requests in flight, of the quiz client
MaxTimers == 2

MaxInFlight == 1

\* Submits in flight where the handlers that send them race
MaxRacing == 2

\* Answers counted in one quiz session of the model
MaxAnswered == 1

----------------------------------------------------------------------------
(* Knowledge base: two of the KNOWLEDGE entries, with their quiz options *)

Opt(i, c) == [id |-> i, correct |-> c]

KNOWLEDGE ==
    << [id |-> "sb-accounts", topic |-> "Solana Basics",
        quizOptions |-> <<Opt("a", TRUE), Opt("b", FALSE), Opt("c", FALSE), Opt("d", FALSE)>>],
       [id |-> "pp-security", topic |-> "PDAs & Programs",
        quizOptions |-> <<Opt("a", FALSE), Opt("b", TRUE), Opt("c", FALSE), Opt("d", FALSE)>>] >>

NoEntry == [id |-> "", topic |-> "", quizOptions |-> <<>>]

\* KNOWLEDGE.find((entry) => entry.id === id) || null
findById(id) ==
    IF \E i \in 1..Len(KNOWLEDGE) : KNOWLEDGE[i].id = id
    THEN KNOWLEDGE[CHOOSE i \in 1..Len(KNOWLEDGE) :
                      /\ KNOWLEDGE[i].id = id
                      /\ \A j \in 1..(i-1) : KNOWLEDGE[j].id # id]
    ELSE NoEntry

\* entry.quizOptions.find(opt => opt.id === optionId)
FindOption(entry, optionId) ==
    LET os == entry.quizOptions
    IN IF \E i \in 1..Len(os) : os[i].id = optionId
       THEN os[CHOOSE i \in 1..Len(os) :
                  /\ os[i].id = optionId
                  /\ \A j \in 1..(i-1) : os[j].id # optionId]
       ELSE Opt("", FALSE)

----------------------------------------------------------------------------
(* The session map *)

SessionIds == {"s1", "s2"}

EmptyMap == [s \in {} |-> 0]

MapSet(m, k, v) == [x \in (DOMAIN m) \cup {k} |-> IF x = k THEN v ELSE m[x]]

MapDelete(m, k) == [x \in (DOMAIN m) \ {k} |-> m[x]]

----------------------------------------------------------------------------
(* Requests and responses *)

Resp(st, b) == [status |-> st, body |-> b]

\* A JSON body as the handlers destructure it; "" is a missing (falsy) field and
\* json = FALSE a body that c.req.json() cannot parse
Body(j, q, o, s, i) == [id |-> i, optionId |-> o, json |-> j, questionId |-> q, sessionId |-> s]

NoBody == Body(TRUE, "", "", "", "")

Req(r, h, v, b) == [body |-> b, route |-> r, header |-> h, verdict |-> v]

QuestionIdInputs == {"sb-accounts", "pp-security", "nope", ""}
OptionIdInputs == {"a", "b", "d", "timeout", "z", ""}
SessionIdInputs == SessionIds \cup {""}

\* X-Payment header on the request, and what the facilitator answers when asked
Headers == {"none", "present"}
Verdicts(h) == IF h = "present" THEN {"ok", "rejected"} ELSE {"unasked"}

----------------------------------------------------------------------------
(* routes/quiz.ts: the handlers, from the point where the body is parsed *)

PRICE_USDC_MICRO == 1000
XpCorrect == 15
XpSettle == 5

Session(q, outcome, settled, ts) ==
    [questionId |-> q, lastOutcome |-> outcome, paymentSettled |-> settled, timestamp |-> ts]

BadJson(m) == [sessions |-> m, resp |-> Resp(400, [error |-> "Invalid JSON in request body"])]

\* Mutant of SubmitHandler: "timeout" is looked up like any other option id
SubmitHandlerTimeoutAsOption(m, b, now) ==
    IF ~b.json THEN BadJson(m)
    ELSE IF b.questionId = "" \/ b.optionId = ""
    THEN [sessions |-> m, resp |-> Resp(400, [error |-> "questionId and optionId are required"])]
    ELSE LET entry == findById(b.questionId) IN
    IF entry = NoEntry \/ Len(entry.quizOptions) = 0
    THEN [sessions |-> m, resp |-> Resp(404, [error |-> "Question not found"])]
    ELSE LET selectedOption == FindOption(entry, b.optionId) IN
    IF selectedOption.id = ""
    THEN [sessions |-> m, resp |-> Resp(400, [error |-> "Invalid option"])]
    ELSE LET isCorrect == selectedOption.correct IN
         [sessions |-> IF b.sessionId # ""
                       THEN MapSet(m, b.sessionId,
                                   Session(b.questionId, IF isCorrect THEN "correct" ELSE "wrong",
                                           isCorrect, now))
                       ELSE m,
          resp |-> IF isCorrect
                   THEN Resp(200, [correct |-> TRUE, xp |-> XpCorrect, nextUnlocked |-> TRUE])
                   ELSE Resp(200, [correct |-> FALSE, optionId |-> b.optionId,
                                   questionId |-> b.questionId, paymentRequired |-> TRUE])]

\* quizRouter.post("/submit")
SubmitHandler(m, b, now) ==
    IF ~b.json THEN BadJson(m)
    ELSE IF b.questionId = "" \/ b.optionId = ""
    THEN [sessions |-> m, resp |-> Resp(400, [error |-> "questionId and optionId are required"])]
    ELSE LET entry == findById(b.questionId) IN
    IF entry = NoEntry \/ Len(entry.quizOptions) = 0
    THEN [sessions |-> m, resp |-> Resp(404, [error |-> "Question not found"])]
    ELSE IF b.optionId = "timeout"
    THEN [sessions |-> IF b.sessionId # ""
                       THEN MapSet(m, b.sessionId, Session(b.questionId, "wrong", FALSE, now))
                       ELSE m,
          resp |-> Resp(200, [correct |-> FALSE, optionId |-> "timeout",
                              questionId |-> b.questionId, paymentRequired |-> TRUE])]
    ELSE LET selectedOption == FindOption(entry, b.optionId) IN
    IF selectedOption.id = ""
    THEN [sessions |-> m, resp |-> Resp(400, [error |-> "Invalid option"])]
    ELSE LET isCorrect == selectedOption.correct IN
         [sessions |-> IF b.sessionId # ""
                       THEN MapSet(m, b.sessionId,
                                   Session(b.questionId, IF isCorrect THEN "correct" ELSE "wrong",
                                           isCorrect, now))
                       ELSE m,
          resp |-> IF isCorrect
                   THEN Resp(200, [correct |-> TRUE, xp |-> XpCorrect, nextUnlocked |-> TRUE])
                   ELSE Resp(200, [correct |-> FALSE, optionId |-> b.optionId,
                                   questionId |-> b.questionId, paymentRequired |-> TRUE])]

\* A settle that stores a settled entry whether or not the session exists
SettleHandlerUpsert(m, b) ==
    IF ~b.json THEN BadJson(m)
    ELSE IF b.questionId = ""
    THEN [sessions |-> m, resp |-> Resp(400, [error |-> "questionId is required"])]
    ELSE LET entry == findById(b.questionId) IN
    IF entry = NoEntry \/ Len(entry.quizOptions) = 0
    THEN [sessions |-> m, resp |-> Resp(404, [error |-> "Question not found"])]
    ELSE [sessions |-> IF b.sessionId # ""
                       THEN MapSet(m, b.sessionId,
                                   IF b.sessionId \in DOMAIN m
                                   THEN [m[b.sessionId] EXCEPT !.paymentSettled = TRUE]
                                   ELSE Session(b.questionId, "wrong", TRUE, 0))
                       ELSE m,
          resp |-> Resp(200, [correct |-> FALSE, paymentSettled |-> TRUE, xp |-> XpSettle])]

\* quizRouter.post("/settle")
SettleHandler(m, b) ==
    IF ~b.json THEN BadJson(m)
    ELSE IF b.questionId = ""
    THEN [sessions |-> m, resp |-> Resp(400, [error |-> "questionId is required"])]
    ELSE LET entry == findById(b.questionId) IN
    IF entry = NoEntry \/ Len(entry.quizOptions) = 0
    THEN [sessions |-> m, resp |-> Resp(404, [error |-> "Question not found"])]
    ELSE [sessions |-> IF b.sessionId # "" /\ b.sessionId \in DOMAIN m
                       THEN MapSet(m, b.sessionId, [m[b.sessionId] EXCEPT !.paymentSettled = TRUE])
                       ELSE m,
          resp |-> Resp(200, [correct |-> FALSE, paymentSettled |-> TRUE, xp |-> XpSettle])]

\* Mutant of canProceed: the settlement flag is not looked at
canProceedUnsettled(session) ==
    session.lastOutcome = "correct" \/ session.lastOutcome = "wrong"

\* canProceed of quizRouter.post("/next")
canProceed(session) ==
    \/ session.lastOutcome = "correct"
    \/ (session.lastOutcome = "wrong" /\ session.paymentSettled)

\* quizRouter.post("/next")
NextHandler(m, b) ==
    IF ~b.json THEN BadJson(m)
    ELSE IF b.sessionId = ""
    THEN [sessions |-> m, resp |-> Resp(400, [error |-> "sessionId is required"])]
    ELSE IF b.sessionId \notin DOMAIN m
    THEN [sessions |-> m, resp |-> Resp(404, [error |-> "Session not found"])]
    ELSE IF ~canProceed(m[b.sessionId])
    THEN [sessions |-> m, resp |-> Resp(409, [error |-> "pending_payment"])]
    ELSE [sessions |-> MapDelete(m, b.sessionId),
          resp |-> Resp(200, [ok |-> TRUE, nextUnlocked |-> TRUE])]

----------------------------------------------------------------------------
(* routes/rag.ts and index.ts: the other handlers *)

\* ragRouter.post("/answer")
AnswerHandler(m, b) ==
    IF ~b.json THEN BadJson(m)
    ELSE IF b.id = ""
    THEN [sessions |-> m, resp |-> Resp(400, [error |-> "Invalid request: 'id' field is required"])]
    ELSE LET entry == findById(b.id) IN
    IF entry = NoEntry
    THEN [sessions |-> m, resp |-> Resp(404, [error |-> "Answer not found for the given id"])]
    ELSE [sessions |-> m,
          resp |-> Resp(200, [id |-> entry.id, topic |-> entry.topic, type |-> "answer",
                              answerMd |-> entry.id])]

\* app.get("/unlock")
UnlockHandler(m) == [sessions |-> m, resp |-> Resp(200, [ok |-> TRUE, content |-> "locked-content"])]

\* app.get("/health")
HealthHandler(m) == [sessions |-> m, resp |-> Resp(200, [status |-> "ok"])]

\* app.notFound
NotFound(m) == [sessions |-> m, resp |-> Resp(404, [error |-> "Not found"])]

----------------------------------------------------------------------------
(* index.ts: the application as assembled *)

RagRoutes == {"/rag/preview", "/rag/answer", "/rag/catalog", "/rag/daily"}

QuizRoutes == {"/quiz/question", "/quiz/submit", "/quiz/settle", "/quiz/next", "/quiz/stats"}

\* The route table handed to paymentMiddleware
ProtectedRoutes == {"/unlock", "/rag/answer", "/quiz/settle"}

\* Mutant of Layers: the quiz router is mounted before the payment middleware
LayersQuizBeforeGate ==
    <<"cors", "health", "logger", "ragRouter", "quizRouter", "paymentMiddleware", "unlock">>

\* Middleware and routers in the order index.ts registers them; Hono runs the
\* matching ones in this order and stops at the first that answers
Layers == <<"cors", "health", "logger", "ragRouter", "paymentMiddleware", "quizRouter", "unlock">>

\* The routes a layer answers itself (without calling next)
Handles(l, r) ==
    CASE l = "health" -> r = "/health"
      [] l = "ragRouter" -> r \in RagRoutes
      [] l = "quizRouter" -> r \in QuizRoutes
      [] l = "unlock" -> r = "/unlock"
      [] OTHER -> FALSE

\* The requirements the middleware offers for a route
Requirements(r) ==
    [scheme |-> "exact", network |-> "solana-devnet", maxAmountRequired |-> PRICE_USDC_MICRO,
     resource |-> r, payTo |-> "server", asset |-> "usdc", extra |-> [feePayer |-> "facilitator"]]

\* The x402 gate: a protected route needs an X-Payment header that the facilitator accepts
PaymentMiddleware(req) ==
    IF req.route \notin ProtectedRoutes THEN "next"
    ELSE IF req.header = "none" THEN "402"
    ELSE IF req.verdict # "ok" THEN "402"
    ELSE "next"

PaymentRequired(req) ==
    Resp(402, [error |-> IF req.header = "none" THEN "X-PAYMENT header is required" ELSE "rejected",
               accepts |-> <<Requirements(req.route)>>])

\* The walk of a request through the layers from layer i on
RECURSIVE Dispatch(_, _, _)
Dispatch(i, req, verified) ==
    IF i > Len(Layers) THEN [verified |-> verified, end |-> "notFound", layer |-> ""]
    ELSE IF Layers[i] = "paymentMiddleware"
    THEN IF PaymentMiddleware(req) = "next"
         THEN Dispatch(i + 1, req, verified \/ req.route \in ProtectedRoutes)
         ELSE [verified |-> verified, end |-> "gate402", layer |-> Layers[i]]
    ELSE IF Handles(Layers[i], req.route)
    THEN [verified |-> verified, end |-> "handler", layer |-> Layers[i]]
    ELSE Dispatch(i + 1, req, verified)

\* The handler of a route
RunHandler(req, m, now) ==
    CASE req.route = "/quiz/submit" -> SubmitHandler(m, req.body, now)
      [] req.route = "/quiz/settle" -> SettleHandler(m, req.body)
      [] req.route = "/quiz/next" -> NextHandler(m, req.body)
      [] req.route = "/rag/answer" -> AnswerHandler(m, req.body)
      [] req.route = "/unlock" -> UnlockHandler(m)
      [] req.route = "/health" -> HealthHandler(m)
      [] OTHER -> NotFound(m)

NoReq == Req("", "none", "unasked", NoBody)

NoResp == Resp(0, [error |-> ""])

\* One request served by app.fetch, up to the response
Serve(req) ==
    LET d == Dispatch(1, req, FALSE)
        out == CASE d.end = "handler" -> RunHandler(req, sessions, clock)
                 [] d.end = "gate402" -> [sessions |-> sessions, resp |-> PaymentRequired(req)]
                 [] OTHER -> NotFound(sessions)
    IN /\ lastReq = NoReq
       /\ sessions' = out.sessions
       /\ prevSessions' = sessions
       /\ lastReq' = req
       /\ lastResp' = out.resp
       /\ handlerRan' = IF d.end = "handler" THEN req.route ELSE "none"
       /\ paidBefore' = (paidBefore \/ d.verified)
       /\ UNCHANGED <<clock, concurrentVars, fetchVars, clientVars, questVars, ragVars>>

\* The response is sent and the request's context is dropped
Respond ==
    /\ lastReq # NoReq
    /\ lastReq' = NoReq
    /\ lastResp' = NoResp
    /\ prevSessions' = EmptyMap
    /\ handlerRan' = "none"
    /\ UNCHANGED <<sessions, clock, paidBefore, concurrentVars, fetchVars, clientVars, questVars,
                   ragVars>>

ServerInit ==
    /\ sessions = EmptyMap
    /\ clock = 0
    /\ paidBefore = FALSE
    /\ lastReq = NoReq
    /\ lastResp = NoResp
    /\ prevSessions = EmptyMap
    /\ handlerRan = "none"
    /\ suspended = <<>>
    /\ served = <<>>

\* Time passes between requests
Tick ==
    /\ lastReq = NoReq
    /\ clock < MaxClock
    /\ clock' = clock + 1
    /\ UNCHANGED <<sessions, paidBefore, lastReq, lastResp, prevSessions, handlerRan,
                   concurrentVars, fetchVars,
                   clientVars, questVars, ragVars>>

\* The JSON bodies a client can send: unparsable, or with the given fields
Bodies(qs, os, ss, is) ==
    {Body(FALSE, "", "", "", "")} \cup
    {Body(TRUE, q, o, s, i) : q \in qs, o \in os, s \in ss, i \in is}

PostQuizSubmit ==
    \E b \in Bodies(QuestionIdInputs, OptionIdInputs, SessionIdInputs, {""}) :
        Serve(Req("/quiz/submit", "none", "unasked", b))

PostQuizSettle ==
    \E h \in Headers, b \in Bodies(QuestionIdInputs, {""}, SessionIdInputs, {""}) :
        \E v \in Verdicts(h) : Serve(Req("/quiz/settle", h, v, b))

PostQuizNext ==
    \E b \in Bodies({""}, {""}, SessionIdInputs, {""}) :
        Serve(Req("/quiz/next", "none", "unasked", b))

PostRagAnswer ==
    \E h \in Headers, b \in Bodies({""}, {""}, {""}, QuestionIdInputs) :
        \E v \in Verdicts(h) : Serve(Req("/rag/answer", h, v, b))

GetUnlock ==
    \E h \in Headers : \E v \in Verdicts(h) : Serve(Req("/unlock", h, v, NoBody))

GetHealth == Serve(Req("/health", "none", "unasked", NoBody))

GetUnknown == Serve(Req("/nope", "none", "unasked", NoBody))

NextServer ==
    \/ Tick
    \/ PostQuizSubmit
    \/ PostQuizSettle
    \/ PostQuizNext
    \/ PostRagAnswer
    \/ GetUnlock
    \/ GetHealth
    \/ GetUnknown
    \/ Respond

----------------------------------------------------------------------------
(* Requests that overlap: Node runs a handler until it awaits. The quiz handlers
   await only c.req.json(), before they touch the map; from there to the response
   each runs without a break. *)

\* One session's requests: the question's right option, a wrong one, "timeout",
\* and a body that does not parse; the settle has passed the payment gate
ConcurrentRequests ==
    {Req("/quiz/submit", "none", "unasked", b) :
        b \in Bodies({"sb-accounts"}, {"a", "b", "timeout"}, {"s1"}, {""})}
    \cup {Req("/quiz/settle", "present", "ok", b) :
        b \in Bodies({"sb-accounts"}, {""}, {"s1"}, {""})}
    \cup {Req("/quiz/next", "none", "unasked", b) : b \in Bodies({""}, {""}, {"s1"}, {""})}

\* A request reaches its handler, which runs up to `await c.req.json()`
Arrive ==
    \E r \in ConcurrentRequests :
       /\ Len(suspended) + Len(served) < MaxConcurrent
       /\ Dispatch(1, r, FALSE).end = "handler"
       /\ suspended' = Append(suspended, [ask |-> r, seen |-> sessions])
       /\ UNCHANGED <<sessions, clock, paidBefore, lastReq, lastResp, prevSessions, handlerRan,
                      served, fetchVars, clientVars, questVars, ragVars>>

\* A handler that works on the map as it was when its request came
ResumeOnSeen ==
    \E i \in 1..Len(suspended) :
       LET out == RunHandler(suspended[i].ask, suspended[i].seen, clock)
       IN  /\ sessions' = out.sessions
           /\ served' = Append(served, [answer |-> out.resp, ask |-> suspended[i].ask,
                                        seen |-> suspended[i].seen, at |-> clock])
           /\ suspended' = SubSeq(suspended, 1, i - 1) \o SubSeq(suspended, i + 1, Len(suspended))
           /\ UNCHANGED <<clock, paidBefore, lastReq, lastResp, prevSessions, handlerRan,
                          fetchVars, clientVars, questVars, ragVars>>

\* The body of a suspended handler has been read: the handler runs from there to
\* its response, reading and writing the map as it is now
Resume ==
    \E i \in 1..Len(suspended) :
       LET out == RunHandler(suspended[i].ask, sessions, clock)
       IN  /\ sessions' = out.sessions
           /\ served' = Append(served, [answer |-> out.resp, ask |-> suspended[i].ask,
                                        seen |-> suspended[i].seen, at |-> clock])
           /\ suspended' = SubSeq(suspended, 1, i - 1) \o SubSeq(suspended, i + 1, Len(suspended))
           /\ UNCHANGED <<clock, paidBefore, lastReq, lastResp, prevSessions, handlerRan,
                          fetchVars, clientVars, questVars, ragVars>>

NextConcurrent ==
    \/ Tick
    \/ Arrive
    \/ Resume

----------------------------------------------------------------------------
(* Claims about the server *)

\* The request being answered carries a payment the facilitator accepted
Paid == lastReq.header = "present" /\ lastReq.verdict = "ok"

NextRequestFor(sid) ==
    /\ lastReq.route = "/quiz/next"
    /\ lastReq.body.json
    /\ lastReq.body.sessionId = sid

\* C1: a POST /quiz/next naming an existing session answers 409 pending_payment and
\* leaves the map as it was when the session is wrong and unsettled, answers
\* 200 {ok, nextUnlocked} and deletes the session when it is correct or wrong and
\* settled; no session leaves the map in any other way.
C1_NextGate ==
    /\ \A sid \in DOMAIN prevSessions :
          NextRequestFor(sid) =>
              LET old == prevSessions[sid] IN
              /\ (old.lastOutcome = "wrong" /\ ~old.paymentSettled) =>
                    /\ lastResp = Resp(409, [error |-> "pending_payment"])
                    /\ sessions = prevSessions
              /\ (old.lastOutcome = "correct" \/ (old.lastOutcome = "wrong" /\ old.paymentSettled)) =>
                    /\ lastResp = Resp(200, [ok |-> TRUE, nextUnlocked |-> TRUE])
                    /\ sessions = MapDelete(prevSessions, sid)
    /\ \A sid \in (DOMAIN prevSessions) \ (DOMAIN sessions) :
          /\ NextRequestFor(sid)
          /\ lastResp.status = 200
          /\ prevSessions[sid].lastOutcome = "correct"
             \/ (prevSessions[sid].lastOutcome = "wrong" /\ prevSessions[sid].paymentSettled)

\* C1 witness: a wrong, settled session was cleared by /quiz/next
C1_Witness ==
    \E sid \in DOMAIN prevSessions :
        /\ NextRequestFor(sid)
        /\ prevSessions[sid].lastOutcome = "wrong"
        /\ prevSessions[sid].paymentSettled
        /\ sid \notin DOMAIN sessions
        /\ lastResp.status = 200

\* C2: GET /unlock and POST /quiz/settle without X-Payment get 402 with a non-empty
\* accepts[] and no handler run; with a header the facilitator rejects they get 402
\* and no handler run; the handler, and the write of paymentSettled, happen only
\* for a request whose payment the facilitator accepted.
C2_GateBeforeHandler ==
    lastReq.route \in {"/unlock", "/quiz/settle"} =>
        /\ lastReq.header = "none" =>
              /\ lastResp.status = 402
              /\ Len(lastResp.body.accepts) > 0
              /\ handlerRan = "none"
        /\ (lastReq.header = "present" /\ lastReq.verdict = "rejected") =>
              /\ lastResp.status = 402
              /\ handlerRan = "none"
        /\ handlerRan # "none" => Paid
        /\ sessions # prevSessions => Paid

\* C2 witness: a settle request with a rejected payment was turned away
C2_Witness ==
    /\ lastReq.route = "/quiz/settle"
    /\ lastReq.header = "present"
    /\ lastReq.verdict = "rejected"
    /\ lastReq.body.sessionId \in DOMAIN sessions
    /\ lastResp.status = 402

\* C3: POST /rag/answer without a verified payment is answered 402 and its handler
\* does not run (so no 200 with answerMd).
C3_AnswerGated ==
    (lastReq.route = "/rag/answer" /\ ~Paid) =>
        /\ lastResp.status = 402
        /\ handlerRan = "none"

\* C9: payment is never cached: whatever was paid before, an unpaid request to a
\* route of the payment table is answered 402 and reaches no handler.
C9_NoPaymentCache ==
    (paidBefore /\ lastReq.route \in ProtectedRoutes /\ ~Paid) =>
        /\ lastResp.status = 402
        /\ handlerRan = "none"
        /\ sessions = prevSessions

\* The option of question q that KNOWLEDGE flags correct
IsCorrectOption(q, o) ==
    \E i \in 1..Len(KNOWLEDGE) :
        /\ KNOWLEDGE[i].id = q
        /\ \E k \in 1..Len(KNOWLEDGE[i].quizOptions) : KNOWLEDGE[i].quizOptions[k] = Opt(o, TRUE)

IsOption(q, o) ==
    \E i \in 1..Len(KNOWLEDGE) :
        /\ KNOWLEDGE[i].id = q
        /\ \E k \in 1..Len(KNOWLEDGE[i].quizOptions) : KNOWLEDGE[i].quizOptions[k].id = o

KnownQuestions == {KNOWLEDGE[i].id : i \in 1..Len(KNOWLEDGE)}

C23_SessionFrame ==
    lastReq # NoReq =>
        /\ \A k \in DOMAIN sessions \ DOMAIN prevSessions :
              lastReq.route = "/quiz/submit" /\ k = lastReq.body.sessionId
        /\ lastReq.route = "/quiz/settle" =>
              /\ DOMAIN sessions = DOMAIN prevSessions
              /\ \A k \in DOMAIN sessions :
                    \/ sessions[k] = prevSessions[k]
                    \/ /\ k = lastReq.body.sessionId
                       /\ sessions[k] = [prevSessions[k] EXCEPT !.paymentSettled = TRUE]
        /\ \A k \in DOMAIN prevSessions \ DOMAIN sessions :
              /\ lastReq.route = "/quiz/next"
              /\ lastResp.status = 200
              /\ k = lastReq.body.sessionId
        /\ lastResp.status \in {400, 404, 409} => sessions = prevSessions
        /\ \A k \in DOMAIN sessions \cap DOMAIN prevSessions :
              k # lastReq.body.sessionId => sessions[k] = prevSessions[k]

\* A paid /quiz/settle has marked the wrong answer of one session settled while
\* the other session's entry stayed
C23_Witness ==
    /\ lastReq.route = "/quiz/settle"
    /\ lastResp.status = 200
    /\ lastReq.body.sessionId \in DOMAIN prevSessions
    /\ ~prevSessions[lastReq.body.sessionId].paymentSettled
    /\ sessions[lastReq.body.sessionId].paymentSettled
    /\ Cardinality(DOMAIN sessions) = 2

\* The requests of served run one after another from map m on, request k first:
\* the map they leave, and whether each got the answer it got
RECURSIVE Replay(_, _)
Replay(k, m) ==
    IF k > Len(served) THEN [sessions |-> m, same |-> TRUE]
    ELSE LET out == RunHandler(served[k].ask, m, served[k].at)
         IN  IF out.resp = served[k].answer THEN Replay(k + 1, out.sessions)
             ELSE [sessions |-> m, same |-> FALSE]

----------------------------------------------------------------------------
(* web/lib/x402-solana.ts: responses as the Fetch API gives them *)

\* Body bytes: "a" is a byte of valid UTF-8 text, "xFF" one that is not
BodySamples == {<<>>, <<"a">>, <<"a", "xFF">>}

\* response.text(): UTF-8 decoding replaces every invalid byte by U+FFFD
Decode(bytes) == [i \in 1..Len(bytes) |-> IF bytes[i] = "xFF" THEN "uFFFD" ELSE bytes[i]]

\* new Response(text): the text is encoded as UTF-8 again; U+FFFD is the three
\* bytes EF BF BD
RECURSIVE Encode(_)
Encode(text) ==
    IF text = <<>> THEN <<>>
    ELSE (IF Head(text) = "uFFFD" THEN <<"xEF", "xBF", "xBD">> ELSE <<Head(text)>>) \o Encode(Tail(text))

ContentTypeJson == <<"content-type", "application/json">>

HeaderSamples == {{}, {ContentTypeJson}}

HasHeader(hs, n) == \E h \in hs : h[1] = n

StatusText(st) ==
    CASE st = 200 -> "OK"
      [] st = 204 -> "No Content"
      [] st = 402 -> "Payment Required"
      [] st = 404 -> "Not Found"
      [] OTHER -> "Internal Server Error"

\* A JSON value found under "error": a string (a sequence of words) or an object
JsonString(ws) == [type |-> "string", words |-> ws]

JsonObject == [type |-> "object", words |-> <<>>]

NoError == JsonString(<<>>)

\* JavaScript truthiness: of these values only the empty string is falsy
Truthy(v) == ~(v.type = "string" /\ v.words = <<>>)

\* String.prototype.includes: the needle is a contiguous part of the string
Includes(ws, needle) ==
    \E i \in 0..(Len(ws) - Len(needle)) : \A j \in 1..Len(needle) : ws[i + j] = needle[j]

ErrorSamples ==
    {NoError, JsonString(<<"invalid", "payment">>), JsonString(<<"transaction", "simulation", "failed">>),
     JsonString(<<"settle", "simulation", "failed">>), JsonObject}

\* The parsed JSON of a 402 body: where the requirements are, and what they hold
Data(p, w, a, f, e) == [error |-> e, asset |-> a, feePayer |-> f, parses |-> p, where |-> w]

NoData == Data(FALSE, "none", FALSE, FALSE, NoError)

\* A Response; readable = its body has not been consumed or lost
Response(st, hs, b, d, r) ==
    [status |-> st, body |-> b, statusText |-> StatusText(st), headers |-> hs, data |-> d, readable |-> r]

NoResponse == Response(0, {}, <<>>, NoData, FALSE)

\* 204 is a null body status: new Response(body, {status: 204}) throws
NullBodyStatus(st) == st = 204

\* new Response(await response.text(), {status, statusText, headers}): a string
\* body gets Content-Type text/plain unless the headers already name one
Recreate(r, hs) ==
    [status |-> r.status, body |-> Encode(Decode(r.body)), statusText |-> r.statusText,
     headers |-> IF HasHeader(hs, "content-type") THEN hs
                 ELSE hs \cup {<<"content-type", "text/plain;charset=UTF-8">>},
     data |-> r.data, readable |-> TRUE]

\* What the resource server can answer to the initial request
InitialResponses ==
    {Response(st, hs, b, NoData, TRUE) : st \in {200, 404, 500}, hs \in HeaderSamples, b \in BodySamples}
    \cup {Response(204, hs, <<>>, NoData, TRUE) : hs \in HeaderSamples}
    \cup {Response(402, {ContentTypeJson}, <<"a">>, NoData, TRUE)}
    \cup {Response(402, {ContentTypeJson}, <<"a">>, Data(TRUE, w, a, f, NoError), TRUE) :
             w \in {"accepts", "paymentRequirements"}, a \in BOOLEAN, f \in BOOLEAN}
    \cup {Response(402, {ContentTypeJson}, <<"a">>, Data(TRUE, "none", FALSE, FALSE, NoError), TRUE)}

\* X-Payment-Response on a 200: absent, not decodable, or carrying the signature
PaymentResponseHeaders ==
    {{}, {<<"x-payment-response", "malformed">>}, {<<"x-payment-response", "sig">>}}

\* What the resource server can answer to the retry
RetryResponses ==
    {Response(200, {ContentTypeJson} \cup ph, b, NoData, TRUE) :
        ph \in PaymentResponseHeaders, b \in BodySamples}
    \cup {Response(402, {ContentTypeJson}, <<"a">>, Data(p, "accepts", TRUE, TRUE, e), TRUE) :
             p \in BOOLEAN, e \in ErrorSamples}
    \cup {Response(500, {ContentTypeJson}, <<"a">>, NoData, TRUE)}

----------------------------------------------------------------------------
(* web/lib/x402-solana.ts: createPaymentTransaction and wrapFetchWithPaymentSolana,
   one action per await *)

Result(k, e) == [error |-> e, kind |-> k]

Pending == Result("pending", "none")

Wallet(pk, st) == [publicKey |-> pk, signTransaction |-> st]

Chain(sa, en, ra) == [senderAta |-> sa, enough |-> en, recipientAta |-> ra]

\* requirements.asset and requirements.extra.feePayer: present or not
Reqs(a, f) == [asset |-> a, feePayer |-> f]

\* The Transaction, and the local recipientTokenAccountExists that decides its shape
Tx(ins, fp, bh, sg, ex) ==
    [feePayer |-> fp, instructions |-> ins, recentBlockhash |-> bh, signed |-> sg,
     recipientTokenAccountExists |-> ex]

NoTx == Tx(<<>>, "unset", "unset", FALSE, FALSE)

Poll(i, n) == [attempt |-> i, signatures |-> n]

\* findTransactionSignature is called with maxAttempts = 5
MaxAttempts == 5

FetchInit ==
    /\ fpc = "idle"
    /\ wallet = Wallet(FALSE, FALSE)
    /\ chain = Chain(FALSE, FALSE, FALSE)
    /\ response = NoResponse
    /\ first = NoResponse
    /\ requirements = Reqs(FALSE, FALSE)
    /\ transaction = NoTx
    /\ txSig = "none"
    /\ poll = Poll(0, 0)
    /\ result = Pending
    /\ sent = <<>>
    /\ signRequests = 0
    /\ rpcCalls = 0
    /\ failed = {}

\* throw inside the try block, or a rejected await: the catch rethrows
Rejects(e) == fpc' = "done" /\ result' = Result("rejected", e)

\* return response
Resolves == fpc' = "done" /\ result' = Result("resolved", "none")

Continues(pc) == fpc' = pc /\ UNCHANGED result

\* A caller passes its wallet and connection
Call ==
    /\ fpc = "idle"
    /\ UNCHANGED <<serverVars, clientVars, questVars, ragVars>>
    /\ \E pk \in BOOLEAN, st \in BOOLEAN : wallet' = Wallet(pk, st)
    /\ \E sa \in BOOLEAN, en \in BOOLEAN, ra \in BOOLEAN : chain' = Chain(sa, en, ra)
    /\ fpc' = "fetch"
    /\ UNCHANGED <<response, first, requirements, transaction, txSig, poll, result, sent,
                   signRequests, rpcCalls, failed>>

\* let response = await fetch(url, options), and the branch on its status
FetchInitial ==
    /\ fpc = "fetch"
    /\ UNCHANGED <<serverVars, clientVars, questVars, ragVars>>
    /\ sent' = Append(sent, "plain")
    /\ \/ /\ Rejects("transport")
          /\ failed' = failed \cup {"fetch"}
          /\ UNCHANGED <<response, first>>
       \/ \E r \in InitialResponses :
             /\ response' = r
             /\ first' = r
             /\ UNCHANGED failed
             /\ IF r.status = 402 THEN Continues("read402")
                ELSE IF r.status # 200 THEN Continues("readError")
                ELSE Resolves
    /\ UNCHANGED <<wallet, chain, requirements, transaction, txSig, poll, signRequests, rpcCalls>>

\* await response.text(), JSON.parse, and the checks up to the first RPC call
Read402Body ==
    /\ fpc = "read402"
    /\ UNCHANGED <<serverVars, clientVars, questVars, ragVars>>
    /\ \E ok \in BOOLEAN :
          LET data == response.data
              reqs == Reqs(data.asset, data.feePayer)
          IN  /\ response' = [response EXCEPT !.readable = FALSE]
              /\ failed' = IF ok THEN failed ELSE failed \cup {"text"}
              /\ requirements' = IF ok /\ data.parses /\ data.where # "none" THEN reqs ELSE requirements
              /\ IF ~ok THEN Rejects("bodyRead")
                 ELSE IF ~data.parses THEN Rejects("parse402")
                 ELSE IF data.where = "none" THEN Rejects("missingRequirements")
                 ELSE IF ~reqs.feePayer THEN Rejects("missingFeePayer")
                 ELSE IF ~wallet.publicKey \/ ~wallet.signTransaction THEN Rejects("walletNotConnected")
                 ELSE IF ~reqs.asset THEN Rejects("missingAsset")
                 ELSE Continues("senderAccount")
    /\ UNCHANGED <<wallet, chain, first, transaction, txSig, poll, sent, signRequests, rpcCalls>>

\* GetSenderAccount without the balance check
GetSenderAccountNoBalanceCheck ==
    /\ fpc = "senderAccount"
    /\ UNCHANGED <<serverVars, clientVars, questVars, ragVars>>
    /\ rpcCalls' = rpcCalls + 1
    /\ \E rpc \in {"ok", "fails"} :
          /\ failed' = IF rpc = "fails" THEN failed \cup {"getAccount(sender)"} ELSE failed
          /\ IF rpc = "fails" \/ ~chain.senderAta THEN Rejects("tokenAccountNotFound")
             ELSE Continues("recipientAccount")
    /\ UNCHANGED <<wallet, chain, response, first, requirements, transaction, txSig, poll, sent,
                   signRequests>>

\* await getAccount(connection, senderTokenAddress) and the balance check
GetSenderAccount ==
    /\ fpc = "senderAccount"
    /\ UNCHANGED <<serverVars, clientVars, questVars, ragVars>>
    /\ rpcCalls' = rpcCalls + 1
    /\ \E rpc \in {"ok", "fails"} :
          /\ failed' = IF rpc = "fails" THEN failed \cup {"getAccount(sender)"} ELSE failed
          /\ IF rpc = "fails" \/ ~chain.senderAta THEN Rejects("tokenAccountNotFound")
             ELSE IF ~chain.enough THEN Rejects("insufficientBalance")
             ELSE Continues("recipientAccount")
    /\ UNCHANGED <<wallet, chain, response, first, requirements, transaction, txSig, poll, sent,
                   signRequests>>

\* await getAccount(connection, recipientTokenAddress) in its own try/catch, then
\* the instructions added before getMint is awaited
GetRecipientAccount ==
    /\ fpc = "recipientAccount"
    /\ UNCHANGED <<serverVars, clientVars, questVars, ragVars>>
    /\ rpcCalls' = rpcCalls + 1
    /\ \E rpc \in {"ok", "fails"} :
          LET recipientTokenAccountExists == rpc = "ok" /\ chain.recipientAta
          IN  /\ failed' = IF rpc = "fails" THEN failed \cup {"getAccount(recipient)"} ELSE failed
              /\ transaction' =
                    Tx(<<"setComputeUnitLimit", "setComputeUnitPrice">>
                           \o (IF ~recipientTokenAccountExists
                               THEN <<"createAssociatedTokenAccount">> ELSE <<>>),
                       "unset", "unset", FALSE, recipientTokenAccountExists)
    /\ Continues("getMint")
    /\ UNCHANGED <<wallet, chain, response, first, requirements, txSig, poll, sent, signRequests>>

\* await getMint(connection, tokenMint), the transfer instruction, the count and
\* fee payer checks, transaction.feePayer
GetMint ==
    /\ fpc = "getMint"
    /\ UNCHANGED <<serverVars, clientVars, questVars, ragVars>>
    /\ rpcCalls' = rpcCalls + 1
    /\ \/ /\ Rejects("rpc")
          /\ failed' = failed \cup {"getMint"}
          /\ UNCHANGED transaction
       \/ LET instructions == Append(transaction.instructions, "transferChecked")
              expectedInstructions == IF transaction.recipientTokenAccountExists THEN 3 ELSE 4
          IN  /\ UNCHANGED failed
              /\ transaction' = [transaction EXCEPT
                                    !.instructions = instructions,
                                    !.feePayer = IF Len(instructions) = expectedInstructions
                                                    /\ requirements.feePayer
                                                 THEN "facilitator" ELSE @]
              /\ IF Len(instructions) # expectedInstructions THEN Rejects("instructionCount")
                 ELSE IF ~requirements.feePayer THEN Rejects("missingFeePayer")
                 ELSE Continues("blockhash")
    /\ UNCHANGED <<wallet, chain, response, first, requirements, txSig, poll, sent, signRequests>>

\* The signature is asked for with the blockhash the transaction was built with
GetBlockhashSkipped ==
    /\ fpc = "blockhash"
    /\ UNCHANGED <<serverVars, clientVars, questVars, ragVars>>
    /\ Continues("sign")
    /\ UNCHANGED <<wallet, chain, response, first, requirements, transaction, txSig, poll, sent,
                   signRequests, rpcCalls, failed>>

\* await connection.getLatestBlockhash("finalized")
GetBlockhash ==
    /\ fpc = "blockhash"
    /\ UNCHANGED <<serverVars, clientVars, questVars, ragVars>>
    /\ rpcCalls' = rpcCalls + 1
    /\ \/ /\ Rejects("rpc")
          /\ failed' = failed \cup {"getLatestBlockhash"}
          /\ UNCHANGED transaction
       \/ /\ transaction' = [transaction EXCEPT !.recentBlockhash = "fresh"]
          /\ Continues("sign")
          /\ UNCHANGED failed
    /\ UNCHANGED <<wallet, chain, response, first, requirements, txSig, poll, sent, signRequests>>

\* await wallet.signTransaction(transaction)
Sign ==
    /\ fpc = "sign"
    /\ UNCHANGED <<serverVars, clientVars, questVars, ragVars>>
    /\ signRequests' = signRequests + 1
    /\ \/ /\ Rejects("signRejected")
          /\ failed' = failed \cup {"signTransaction"}
          /\ UNCHANGED transaction
       \/ /\ transaction' = [transaction EXCEPT !.signed = TRUE]
          /\ Continues("retry")
          /\ UNCHANGED failed
    /\ UNCHANGED <<wallet, chain, response, first, requirements, txSig, poll, sent, rpcCalls>>

\* X-Payment-Response parsed from base64 JSON: its transaction field, if any
HeaderSignature(hs) ==
    IF <<"x-payment-response", "sig">> \in hs THEN "fromHeader" ELSE "none"

\* response = await fetch(url, {...options, headers: {..., "X-Payment": ...}}), the
\* X-Payment-Response header, and the branch that follows
Retry ==
    /\ fpc = "retry"
    /\ UNCHANGED <<serverVars, clientVars, questVars, ragVars>>
    /\ sent' = Append(sent, "X-Payment")
    /\ \/ /\ Rejects("transport")
          /\ failed' = failed \cup {"retry"}
          /\ UNCHANGED <<response, txSig>>
       \/ \E r \in RetryResponses :
             /\ response' = r
             /\ UNCHANGED failed
             /\ IF r.status = 200
                THEN /\ txSig' = HeaderSignature(r.headers)
                     /\ IF txSig' = "none" /\ wallet.publicKey
                        THEN Continues("pollSignatures") ELSE Continues("readBody200")
                ELSE /\ UNCHANGED txSig
                     /\ IF r.status = 402 THEN Continues("read402Retry") ELSE Resolves
    /\ poll' = Poll(0, 0)
    /\ UNCHANGED <<wallet, chain, first, requirements, transaction, signRequests, rpcCalls>>

\* A loop that polls until a signature is found
NextAttemptUnbounded ==
    /\ poll' = Poll(poll.attempt + 1, 0)
    /\ Continues("pollSignatures")

\* findTransactionSignature: the end of one pass of the for loop
NextAttempt ==
    /\ poll' = Poll(poll.attempt + 1, 0)
    /\ IF poll.attempt + 1 < MaxAttempts THEN Continues("pollSignatures") ELSE Continues("readBody200")

\* await connection.getSignaturesForAddress(walletPubkey, {limit: 5}); an error is
\* caught inside the loop, an empty list leads to the one second wait
PollSignatures ==
    /\ fpc = "pollSignatures"
    /\ UNCHANGED <<serverVars, clientVars, questVars, ragVars>>
    /\ rpcCalls' = rpcCalls + 1
    /\ \/ /\ failed' = failed \cup {"getSignaturesForAddress"}
          /\ NextAttempt
       \/ \E n \in 0..MaxSigs :
             /\ UNCHANGED failed
             /\ IF n = 0 THEN NextAttempt
                ELSE poll' = Poll(poll.attempt, n) /\ Continues("pollTransaction")
    /\ UNCHANGED <<wallet, chain, response, first, requirements, transaction, txSig, sent,
                   signRequests>>

\* await connection.getTransaction(sigInfo.signature): the first transaction at
\* most 30 seconds old is returned
PollTransaction ==
    /\ fpc = "pollTransaction"
    /\ UNCHANGED <<serverVars, clientVars, questVars, ragVars>>
    /\ rpcCalls' = rpcCalls + 1
    /\ \/ /\ failed' = failed \cup {"getTransaction"}
          /\ NextAttempt
          /\ UNCHANGED txSig
       \/ \E tx \in {"null", "old", "recent"} :
             /\ UNCHANGED failed
             /\ IF tx = "recent"
                THEN txSig' = "polled" /\ UNCHANGED poll /\ Continues("readBody200")
                ELSE /\ UNCHANGED txSig
                     /\ IF poll.signatures > 1
                        THEN poll' = Poll(poll.attempt, poll.signatures - 1)
                             /\ Continues("pollTransaction")
                        ELSE NextAttempt
    /\ UNCHANGED <<wallet, chain, response, first, requirements, transaction, sent, signRequests>>

\* await response.text() after a 200, and the response built again from the text
ReadBody200 ==
    /\ fpc = "readBody200"
    /\ UNCHANGED <<serverVars, clientVars, questVars, ragVars>>
    /\ \/ /\ Rejects("bodyRead")
          /\ failed' = failed \cup {"text"}
          /\ response' = [response EXCEPT !.readable = FALSE]
       \/ /\ response' = Recreate(response,
                                  IF txSig # "none"
                                  THEN response.headers \cup {<<"x-transaction-signature", txSig>>}
                                  ELSE response.headers)
          /\ Resolves
          /\ UNCHANGED failed
    /\ UNCHANGED <<wallet, chain, first, requirements, transaction, txSig, poll, sent,
                   signRequests, rpcCalls>>

\* errorData.error || "Unknown error"
ErrorMsg(ok, data) ==
    IF ok /\ data.parses /\ Truthy(data.error) THEN data.error
    ELSE JsonString(<<"Unknown", "error">>)

\* The retry was answered 402: await response.json().catch(() => ({})) and the
\* throw that follows; errorMsg.includes is not a function unless errorMsg is a string
Read402Retry ==
    /\ fpc = "read402Retry"
    /\ UNCHANGED <<serverVars, clientVars, questVars, ragVars>>
    /\ \E ok \in BOOLEAN :
          LET errorMsg == ErrorMsg(ok, response.data)
          IN  IF errorMsg.type # "string" THEN Rejects("TypeError")
              ELSE IF Includes(errorMsg.words, <<"simulation", "failed">>)
                      \/ Includes(errorMsg.words, <<"transaction", "simulation">>)
                   THEN Rejects("simulationFailed")
              ELSE Rejects("paymentVerification")
    /\ response' = [response EXCEPT !.readable = FALSE]
    /\ UNCHANGED <<wallet, chain, first, requirements, transaction, txSig, poll, sent,
                   signRequests, rpcCalls, failed>>

\* The initial response is neither 402 nor 200: await response.text() and
\* new Response(...) inside a try whose catch only logs; the text of a null body
\* is empty and reading it cannot fail
ReadErrorBody ==
    /\ fpc = "readError"
    /\ UNCHANGED <<serverVars, clientVars, questVars, ragVars>>
    /\ \/ /\ response' = IF NullBodyStatus(response.status) THEN response
                         ELSE Recreate(response, response.headers)
          /\ UNCHANGED failed
       \/ /\ ~NullBodyStatus(response.status)
          /\ response' = [response EXCEPT !.readable = FALSE]
          /\ failed' = failed \cup {"text"}
    /\ Resolves
    /\ UNCHANGED <<wallet, chain, first, requirements, transaction, txSig, poll, sent,
                   signRequests, rpcCalls>>

NextFetch ==
    \/ Call
    \/ FetchInitial
    \/ Read402Body
    \/ GetSenderAccount
    \/ GetRecipientAccount
    \/ GetMint
    \/ GetBlockhash
    \/ Sign
    \/ Retry
    \/ PollSignatures
    \/ PollTransaction
    \/ ReadBody200
    \/ Read402Retry
    \/ ReadErrorBody

----------------------------------------------------------------------------
(* Claims about wrapFetchWithPaymentSolana *)

XPaymentRequests == {i \in 1..Len(sent) : sent[i] = "X-Payment"}

\* The call has ended after a retry that was answered, with status 402
RetryAnswered402 ==
    fpc = "done" /\ Len(sent) = 2 /\ "retry" \notin failed /\ response.status = 402

\* C4: one call sends at most two requests, the initial one and at most one retry
\* carrying X-Payment, and asks the wallet for at most one signature; a retry
\* answered 402 makes the call reject with a payment verification error, without
\* a second transaction, signature or a third request.
C4_OneRetryOneSignature ==
    /\ Len(sent) <= 2
    /\ XPaymentRequests \subseteq {2}
    /\ signRequests <= 1
    /\ RetryAnswered402 =>
          /\ result.kind = "rejected"
          /\ result.error \in {"paymentVerification", "simulationFailed"}

\* The request and signature bounds of C4 alone
FetchBounds == Len(sent) <= 2 /\ XPaymentRequests \subseteq {2} /\ signRequests <= 1

\* The 402 body, the wallet or the sender's token account fails a precondition
PreconditionFails ==
    /\ first.status = 402
    /\ \/ ~first.data.parses
       \/ first.data.where = "none"
       \/ ~first.data.asset
       \/ ~first.data.feePayer
       \/ ~wallet.publicKey
       \/ ~wallet.signTransaction
       \/ ~chain.senderAta
       \/ ~chain.enough

\* C6: when the initial response is 402 and a precondition fails (no requirements
\* in the body, no asset, no extra.feePayer, a wallet without publicKey or
\* signTransaction, no sender token account, a balance below the amount), the
\* call rejects, the wallet is never asked to sign and no retry is sent.
C6_PreconditionFatal ==
    PreconditionFails =>
        /\ signRequests = 0
        /\ sent = <<"plain">>
        /\ result.kind # "resolved"
        /\ fpc = "done" => result.kind = "rejected"
        /\ fpc \in {"read402", "senderAccount", "done"}

\* The sender's balance is too low and the call has ended on that check
C6_Witness ==
    /\ PreconditionFails
    /\ wallet.publicKey /\ wallet.signTransaction
    /\ chain.senderAta /\ ~chain.enough
    /\ fpc = "done"
    /\ result = Result("rejected", "insufficientBalance")
    /\ rpcCalls = 1

\* C7: once an awaited step of the payment flow has rejected (the wallet's
\* signTransaction, an RPC call, the retry fetch), the call rejects: it never
\* resolves, and asks for no further signature and sends no further request;
\* when signing rejects, no request carrying X-Payment is sent.
C7_FailureIsFatal ==
    /\ [][(first.status = 402 /\ failed # {}) =>
             /\ signRequests' = signRequests
             /\ sent' = sent
             /\ result'.kind # "resolved"
             /\ fpc' = "done" => result'.kind = "rejected"]_vars
    /\ []("signTransaction" \in failed => XPaymentRequests = {})

\* C8: when the initial response is not 402, exactly one request is sent, no RPC
\* call is made, the wallet is not asked to sign, and the call resolves with a
\* response of the same status, status text, headers and body as the initial
\* one, its body still readable.
C8_PassThrough ==
    (first.status \notin {0, 402}) =>
        /\ sent = <<"plain">>
        /\ rpcCalls = 0
        /\ signRequests = 0
        /\ fpc = "done" =>
              /\ result.kind = "resolved"
              /\ response.status = first.status
              /\ response.statusText = first.statusText
              /\ response.headers = first.headers
              /\ response.body = first.body
              /\ response.readable

\* The retry has been answered 200
RetryAnswered200 == Len(sent) = 2 /\ response.status = 200 /\ fpc # "retry"

Polling == fpc \in {"pollSignatures", "pollTransaction"}

C20_InstructionOrder ==
    transaction.feePayer = "facilitator" =>
        transaction.instructions =
            <<"setComputeUnitLimit", "setComputeUnitPrice">>
                \o (IF ~chain.recipientAta THEN <<"createAssociatedTokenAccount">> ELSE <<>>)
                \o <<"transferChecked">>

\* The keys an instruction names, by role, as createPaymentTransaction passes
\* them: (role, whose key)
InstructionKeys(ins) ==
    CASE ins = "createAssociatedTokenAccount" ->
             {<<"payer", "wallet">>, <<"associatedToken", "recipient">>, <<"owner", "recipient">>}
      [] ins = "transferChecked" ->
             {<<"source", "wallet">>, <<"destination", "recipient">>, <<"authority", "wallet">>}
      [] OTHER -> {}

\* The roles in which a key pays or signs
PayingOrSigning == {"payer", "authority"}

\* C21: in every transaction createPaymentTransaction returns the fee payer is
\* the address of requirements.extra.feePayer, and the user's wallet key pays or
\* signs only as the authority of the token transfer.
C21_WalletOnlyAuthority ==
    transaction.feePayer # "unset" =>
        /\ transaction.feePayer = "facilitator"
        /\ \A i \in 1..Len(transaction.instructions) :
              \A k \in InstructionKeys(transaction.instructions[i]) :
                 (k[2] = "wallet" /\ k[1] \in PayingOrSigning) => k[1] = "authority"

\* C22: the blockhash is fetched after createPaymentTransaction has made its RPC
\* calls and right before the wallet is asked to sign: the step into the
\* signature request is the blockhash fetch, the signature request makes no
\* network call, and a signed transaction carries the blockhash fetched.
C22_FreshBlockhash ==
    /\ [][fpc' = "sign" => (/\ fpc = "blockhash"
                            /\ rpcCalls' = rpcCalls + 1
                            /\ transaction.feePayer = "facilitator"
                            /\ transaction.recentBlockhash = "unset"
                            /\ transaction'.recentBlockhash = "fresh")]_vars
    /\ [][signRequests' # signRequests =>
             (/\ fpc = "sign"
              /\ signRequests' = signRequests + 1
              /\ rpcCalls' = rpcCalls
              /\ sent' = sent
              /\ transaction'.recentBlockhash = transaction.recentBlockhash)]_vars
    /\ [](fpc \in {"senderAccount", "recipientAccount", "getMint", "blockhash"}
             => transaction.recentBlockhash = "unset")
    /\ [](transaction.signed => transaction.recentBlockhash = "fresh")

\* The wallet has signed and the retry has been sent
C22_Witness ==
    /\ transaction.signed
    /\ transaction.recentBlockhash = "fresh"
    /\ signRequests = 1
    /\ Len(sent) = 2

----------------------------------------------------------------------------
(* web/lib/quest.ts: the progress store kept in localStorage. An unlocked[topic]
   array is kept as the bag of its ids: nothing reads the order of the array,
   and an id pushed twice stays visible as two copies. *)

\* Days the browser's clock can reach
MaxDay == 3

\* XP up to which a correct quiz answer is counted
MaxXp == 30

\* What POST /rag/answer returns as (topic, id), passed on by RagCard.handlePay:
\* five entries of "PDAs & Programs" and two entries of other topics
PdaIds == {"pp-what", "pp-seeds-bump", "pp-as-signer", "pp-naming", "pp-authority"}

RagAnswers ==
    {<<"PDAs & Programs", i>> : i \in PdaIds}
    \cup {<<"Transactions & Troubleshooting", "tt-rent">>, <<"Solana Basics", "sb-lamports">>}

\* new Date().toISOString(): the UTC date and the time of day, "<date>T<time>Z"
TimesOfDay == {"00:00:00.000", "23:59:59.999"}

ISO(d, t) == <<d, t>>

\* todayISO.split("T")[0]
SplitT(ts) == ts[1]

\* QuestState; lastDaily 0 is a state without lastDaily
QuestState(x, u, b, l, s) == [xp |-> x, unlocked |-> u, badges |-> b, lastDaily |-> l, streak |-> s]

\* The storage holds no item or one item: localStorage.getItem(STORAGE_KEY) === null
NoItem == <<>>

\* loadState(): JSON.parse of the stored item, or the default state
loadState == IF quest = NoItem THEN QuestState(0, EmptyMap, <<>>, 0, 0) ELSE quest[1]

\* saveState(state): localStorage.setItem(STORAGE_KEY, JSON.stringify(state))
saveState(s) == quest' = <<s>>

\* resetQuestState()
resetQuestState == saveState(QuestState(0, EmptyMap, <<>>, 0, 0))

\* getRank(xp)
getRank(x) ==
    IF x < 50 THEN "Wallet Warmer"
    ELSE IF x < 100 THEN "Account Whisperer"
    ELSE IF x < 200 THEN "PDA Prodigy"
    ELSE "Anchor Adept"

\* state.badges.includes(badge)
HasBadge(bs, b) == \E k \in 1..Len(bs) : bs[k] = b

\* Array.from(new Set(array)): the first occurrence of each element is kept
RECURSIVE Distinct(_)
Distinct(bs) ==
    IF bs = <<>> THEN <<>>
    ELSE LET front == Distinct(SubSeq(bs, 1, Len(bs) - 1))
             last == bs[Len(bs)]
         IN  IF HasBadge(front, last) THEN front ELSE Append(front, last)

\* state.unlocked[tp] || []
UnlockedOf(s, tp) == IF tp \in DOMAIN s.unlocked THEN s.unlocked[tp] ELSE EmptyBag

\* id.includes("rent") || id.includes("lamport"), on the ids above
RentRelated(qid) == qid \in {"tt-rent", "sb-lamports"}

\* checkBadges(state, topic)
checkBadges(s, tp) ==
    (IF tp = "PDAs"
        /\ BagCardinality(UnlockedOf(s, "PDAs")) >= 5
        /\ ~HasBadge(s.badges, "PDA Master")
     THEN <<"PDA Master">> ELSE <<>>)
    \o
    (IF tp = "Errors"
        /\ (\E qid \in BagToSet(UnlockedOf(s, "Errors")) : RentRelated(qid))
        /\ ~HasBadge(s.badges, "Rent-Ready")
     THEN <<"Rent-Ready">> ELSE <<>>)

\* awardUnlock without the includes test
awardUnlockAlways(s, tp, qid) ==
    LET pushed == [s EXCEPT !.unlocked = MapSet(s.unlocked, tp, UnlockedOf(s, tp) (+) SetToBag({qid})),
                            !.xp = @ + 10]
    IN  [pushed EXCEPT !.badges = Distinct(pushed.badges \o checkBadges(pushed, tp))]

\* awardUnlock(topic, id), from the state loaded to the state saved
awardUnlock(s, tp, qid) ==
    LET initialised == [s EXCEPT !.unlocked = MapSet(s.unlocked, tp, UnlockedOf(s, tp))]
        pushed ==
            IF ~BagIn(qid, initialised.unlocked[tp])
            THEN [initialised EXCEPT !.unlocked[tp] = @ (+) SetToBag({qid}), !.xp = @ + 10]
            ELSE initialised
    IN  [pushed EXCEPT !.badges = Distinct(pushed.badges \o checkBadges(pushed, tp))]

\* recordDailyCompletion that counts on after a gap of more than one day
recordDailyCompletionNoReset(s, ts) ==
    LET today == SplitT(ts)
        newStreak == IF s.lastDaily = 0 THEN 1 ELSE s.streak + 1
    IN  IF s.lastDaily = today THEN s
        ELSE [s EXCEPT !.xp = @ + 5, !.lastDaily = today, !.streak = newStreak,
                       !.badges = IF newStreak >= 3 /\ ~HasBadge(@, "Daily Learner")
                                  THEN Append(@, "Daily Learner") ELSE @]

\* recordDailyCompletion without the test for a day already completed
recordDailyCompletionAgain(s, ts) ==
    LET today == SplitT(ts)
        daysDiff == today - s.lastDaily
        newStreak == IF s.lastDaily = 0 THEN 1
                     ELSE IF daysDiff = 1 THEN s.streak + 1
                     ELSE IF daysDiff > 1 THEN 1
                     ELSE s.streak
    IN  [s EXCEPT !.xp = @ + 5, !.lastDaily = today, !.streak = newStreak,
                  !.badges = IF newStreak >= 3 /\ ~HasBadge(@, "Daily Learner")
                             THEN Append(@, "Daily Learner") ELSE @]

\* recordDailyCompletion(todayISO), from the state loaded to the state stored
\* when it returns; dates are day numbers, so daysDiff is their difference
recordDailyCompletion(s, ts) ==
    LET today == SplitT(ts)
        daysDiff == today - s.lastDaily
        newStreak == IF s.lastDaily = 0 THEN 1
                     ELSE IF daysDiff = 1 THEN s.streak + 1
                     ELSE IF daysDiff > 1 THEN 1
                     ELSE s.streak
    IN  IF s.lastDaily = today THEN s
        ELSE [s EXCEPT !.xp = @ + 5, !.lastDaily = today, !.streak = newStreak,
                       !.badges = IF newStreak >= 3 /\ ~HasBadge(@, "Daily Learner")
                                  THEN Append(@, "Daily Learner") ELSE @]

\* A call and what it returned; before is the state it loaded
QuestCall(o, tp, qid, ts, b, x, s) ==
    [id |-> qid, topic |-> tp, xp |-> x, streak |-> s, today |-> ts, op |-> o, before |-> b]

NoCall == QuestCall("none", "", "", ISO(0, ""), QuestState(0, EmptyMap, <<>>, 0, 0), 0, 0)

QuestInit ==
    /\ quest = NoItem
    /\ questNow = 1
    /\ questCall = NoCall
    /\ awarded = {}
    /\ unlockXp = 0

\* RagCard.handlePay after a paid POST /rag/answer: awardUnlock(fullData.topic, fullData.id)
AwardUnlock ==
    \E pair \in RagAnswers :
       LET s == loadState
           saved == awardUnlock(s, pair[1], pair[2])
       IN  /\ saveState(saved)
           /\ questCall' = QuestCall("awardUnlock", pair[1], pair[2], ISO(0, ""), s, saved.xp, 0)
           /\ awarded' = awarded \cup {pair}
           /\ unlockXp' = unlockXp + (saved.xp - s.xp)
           /\ UNCHANGED questNow
           /\ UNCHANGED <<serverVars, fetchVars, clientVars, ragVars>>

\* recordDailyCompletion(new Date().toISOString())
RecordDailyCompletion ==
    \E t \in TimesOfDay :
       LET s == loadState
           ts == ISO(questNow, t)
           stored == recordDailyCompletion(s, ts)
       IN  /\ IF stored = s THEN UNCHANGED quest ELSE saveState(stored)
           /\ questCall' = QuestCall("recordDailyCompletion", "", "", ts, s, stored.xp, stored.streak)
           /\ UNCHANGED <<questNow, awarded, unlockXp>>
           /\ UNCHANGED <<serverVars, fetchVars, clientVars, ragVars>>

\* Midnight UTC passes
NextDay ==
    /\ questNow < MaxDay
    /\ questNow' = questNow + 1
    /\ UNCHANGED <<quest, questCall, awarded, unlockXp>>
    /\ UNCHANGED <<serverVars, fetchVars, clientVars, ragVars>>

\* The quiz page is opened: the effect run on mount calls resetQuestState()
OpenQuiz ==
    /\ resetQuestState
    /\ questCall' = NoCall
    /\ awarded' = {}
    /\ unlockXp' = 0
    /\ UNCHANGED questNow
    /\ UNCHANGED <<serverVars, fetchVars, clientVars, ragVars>>

\* The penalty without the floor
penaliseBelowZero(s) == [s EXCEPT !.xp = @ - 5]

\* handleSubmit on a wrong answer: questState.xp = Math.max(0, questState.xp - 5)
penalise(s) == [s EXCEPT !.xp = IF @ - 5 > 0 THEN @ - 5 ELSE 0]

\* handleSubmit on a correct answer: questState.xp += data.xp, the 15 of the server
credit(s) == [s EXCEPT !.xp = @ + XpCorrect]

\* The quiz records a correct answer in the store
AnswerCorrect ==
    LET s == loadState
    IN  /\ s.xp + XpCorrect <= MaxXp
        /\ saveState(credit(s))
        /\ questCall' = QuestCall("correct", "", "", ISO(0, ""), s, credit(s).xp, 0)
        /\ UNCHANGED <<questNow, awarded, unlockXp>>
        /\ UNCHANGED <<serverVars, fetchVars, clientVars, ragVars>>

\* The quiz records a wrong answer or a timeout in the store
AnswerWrong ==
    LET s == loadState
    IN  /\ saveState(penalise(s))
        /\ questCall' = QuestCall("wrong", "", "", ISO(0, ""), s, penalise(s).xp, 0)
        /\ UNCHANGED <<questNow, awarded, unlockXp>>
        /\ UNCHANGED <<serverVars, fetchVars, clientVars, ragVars>>

NextQuest ==
    \/ AwardUnlock
    \/ RecordDailyCompletion
    \/ NextDay
    \/ OpenQuiz

NextProgress ==
    \/ AwardUnlock
    \/ RecordDailyCompletion
    \/ NextDay
    \/ OpenQuiz
    \/ AnswerCorrect
    \/ AnswerWrong

----------------------------------------------------------------------------
(* Claims about the progress store *)

\* C11: awardUnlock is idempotent on XP. In any sequence of awardUnlock calls
\* with no reset in between, the XP gained from unlocks is 10 times the number
\* of distinct (topic, id) pairs passed, each id is at most once in
\* unlocked[topic], and a call with a pair passed before leaves xp and unlocked
\* as they were.
C11_UnlockOnce ==
    /\ [](unlockXp = 10 * Cardinality(awarded))
    /\ [](\A tp \in DOMAIN loadState.unlocked :
            \A qid \in BagToSet(loadState.unlocked[tp]) : CopiesIn(qid, loadState.unlocked[tp]) = 1)
    /\ [][(/\ questCall' # questCall
           /\ questCall'.op = "awardUnlock"
           /\ <<questCall'.topic, questCall'.id>> \in awarded)
          => (quest'[1].xp = quest[1].xp /\ quest'[1].unlocked = quest[1].unlocked)]_vars

\* awardUnlock has been called with a pair that was unlocked already, after
\* another pair was unlocked
C11_Witness ==
    /\ questCall.op = "awardUnlock"
    /\ BagIn(questCall.id, UnlockedOf(questCall.before, questCall.topic))
    /\ Cardinality(awarded) = 2
    /\ loadState.xp = 20

\* C12: recordDailyCompletion called a second time with a timestamp of the UTC
\* date stored as lastDaily changes nothing: xp, streak, lastDaily and badges
\* stay as stored, and the call returns the xp and the streak the first call
\* returned.
C12_SameDayNoOp ==
    [][(/\ questCall.op = "recordDailyCompletion"
        /\ questCall'.op = "recordDailyCompletion"
        /\ questCall' # questCall
        /\ questCall'.today[1] = loadState.lastDaily)
       => (/\ quest' = quest
           /\ questCall'.xp = questCall.xp
           /\ questCall'.streak = questCall.streak)]_vars

\* The second call of a day, late in the day, on the third day of a streak
C12_Witness ==
    /\ questCall.op = "recordDailyCompletion"
    /\ questCall.before.lastDaily = questCall.today[1]
    /\ questCall.today = ISO(3, "23:59:59.999")
    /\ questCall.streak = 3
    /\ HasBadge(loadState.badges, "Daily Learner")

\* C24: recordDailyCompletion on a date d other than the stored lastDaily adds
\* 5 XP, stores d as lastDaily, and leaves the streak at 1 when there was no
\* lastDaily, at the previous streak + 1 when d is the day after lastDaily, at 1
\* when d is later than that; a call that leaves the streak at 3 or more leaves
\* "Daily Learner" in badges, once.
C24_Streak ==
    [][(/\ questCall' # questCall
        /\ questCall'.op = "recordDailyCompletion"
        /\ questCall'.today[1] # loadState.lastDaily)
       => LET d == questCall'.today[1]
              old == loadState
              new == quest'[1]
          IN  /\ new.xp = old.xp + 5
              /\ new.lastDaily = d
              /\ old.lastDaily = 0 => new.streak = 1
              /\ (old.lastDaily # 0 /\ d = old.lastDaily + 1) => new.streak = old.streak + 1
              /\ (old.lastDaily # 0 /\ d > old.lastDaily + 1) => new.streak = 1
              /\ new.streak >= 3 =>
                    Cardinality({k \in 1..Len(new.badges) : new.badges[k] = "Daily Learner"}) = 1
              /\ questCall'.xp = new.xp
              /\ questCall'.streak = new.streak]_vars

\* A completion on day 3 after one on day 1: the streak of 1 starts again at 1
C24_Witness ==
    /\ questCall.op = "recordDailyCompletion"
    /\ questCall.before.lastDaily = 1
    /\ questCall.before.streak = 1
    /\ questCall.today[1] = 3
    /\ loadState.streak = 1
    /\ loadState.lastDaily = 3
    /\ loadState.xp = questCall.before.xp + 5

\* C25: the stored XP is never negative: from the initial or a reset state,
\* after any sequence of awardUnlock, recordDailyCompletion, correct quiz
\* answers (+15), wrong answers or timeouts (-5) and resetQuestState, the stored
\* xp is an integer not below 0.
C25_XpNotNegative ==
    /\ loadState.xp \in Nat
    /\ questCall.xp \in Nat

\* A wrong answer at 0 XP has left the XP at 0, after XP had been earned and lost
C25_Witness ==
    /\ questCall.op = "wrong"
    /\ questCall.before.xp = 0
    /\ questCall.before.lastDaily # 0
    /\ loadState.xp = 0

\* C19: once awardUnlock has been called with the (topic, id) of every entry of
\* the PDA topic, as POST /rag/answer returns them, the stored badges contain
\* "PDA Master"; while an entry of the topic is still locked they do not.
C19_PdaMaster ==
    (\A i \in PdaIds : <<"PDAs & Programs", i>> \in awarded)
        <=> HasBadge(loadState.badges, "PDA Master")

----------------------------------------------------------------------------
(* server/rag/knowledge.ts and the /rag/preview and /rag/daily routes. A string is
   the sequence of its characters. *)

\* Chunks a question is typed from
MaxChunks == 3

\* Days the window of server clock readings spans
MaxRagDays == 3

\* entry.q of the entries of KNOWLEDGE: "What is a Solana account?" and
\* "Common PDA security mistakes?"
EntryQ ==
    << <<"W", "h", "a", "t", " ", "i", "s", " ", "a", " ", "S", "o", "l", "a", "n", "a", " ", "a", "c", "c", "o", "u", "n", "t", "?">>,
       <<"C", "o", "m", "m", "o", "n", " ", "P", "D", "A", " ", "s", "e", "c", "u", "r", "i", "t", "y", " ", "m", "i", "s", "t", "a", "k", "e", "s", "?">> >>

\* Pieces of text a client puts together, separated by blanks, into the question
\* it sends; the empty piece gives leading, trailing and double blanks
Chunks ==
    { <<"w", "h", "a", "t", " ", "i", "s", " ", "a">>,
      <<"s", "o", "l", "a", "n", "a", " ", "a", "c", "c", "o", "u", "n", "t", "?">>,
      <<"a">>,
      <<"C", "o", "m", "m", "o", "n", " ", "P", "D", "A", " ", "s", "e", "c", "u", "r", "i", "t", "y", " ", "m", "i", "s", "t", "a", "k", "e", "s", "?">>,
      <<"a", "c", "c", "o", "u", "n", "t", "?">>,
      <<"s", "e", "c", "u", "r", "i", "t", "y">>,
      <<"s", "o", "l", "a", "n", "a">>,
      <<"h", "o", "w">>,
      <<"p", "d", "a">>,
      <<>> }

RECURSIVE Questions(_)
Questions(n) ==
    IF n = 1 THEN Chunks
    ELSE Questions(n - 1) \cup {s \o <<" ">> \o c : s \in Questions(n - 1), c \in Chunks}

\* String.prototype.toLowerCase, on the capitals that occur
LowerCase(c) ==
    CASE c = "A" -> "a" [] c = "C" -> "c" [] c = "D" -> "d" [] c = "P" -> "p"
      [] c = "S" -> "s" [] c = "W" -> "w" [] OTHER -> c

toLowerCase(s) == [k \in 1..Len(s) |-> LowerCase(s[k])]

\* String.prototype.trim
RECURSIVE trim(_)
trim(s) ==
    IF s = <<>> THEN s
    ELSE IF Head(s) = " " THEN trim(Tail(s))
    ELSE IF s[Len(s)] = " " THEN trim(SubSeq(s, 1, Len(s) - 1))
    ELSE s

\* s.split(/\s+/) of a trimmed, non-empty string: its maximal runs of non-blanks;
\* word is the run being read
RECURSIVE Split(_, _)
Split(s, word) ==
    IF s = <<>> THEN (IF word = <<>> THEN <<>> ELSE <<word>>)
    ELSE IF Head(s) = " " THEN (IF word = <<>> THEN <<>> ELSE <<word>>) \o Split(Tail(s), <<>>)
    ELSE Split(Tail(s), Append(word, Head(s)))

StopWords ==
    { <<"h", "o", "w">>,
      <<"d", "o">>,
      <<"t", "h", "e">>,
      <<"y", "o", "u">>,
      <<"a", "n", "d">>,
      <<"f", "o", "r">>,
      <<"g", "e", "t">>,
      <<"w", "h", "a", "t">>,
      <<"w", "h", "y">>,
      <<"w", "h", "e", "n">>,
      <<"w", "h", "e", "r", "e">>,
      <<"a", "r", "e">>,
      <<"w", "i", "t", "h">> }

IsKeyword(w) == Len(w) > 2 /\ w \notin StopWords

\* The for loop over questionKeywords of one entry: score and matched so far,
\* then the bonus
RECURSIVE EntryScoreNoBonus(_, _, _, _, _)
EntryScoreNoBonus(keywords, normalizedEntryQ, k, score, matched) ==
    IF k > Len(keywords) THEN score
    ELSE IF Includes(normalizedEntryQ, keywords[k])
    THEN EntryScoreNoBonus(keywords, normalizedEntryQ, k + 1, score + Len(keywords[k]), matched + 1)
    ELSE EntryScoreNoBonus(keywords, normalizedEntryQ, k + 1, score, matched)

RECURSIVE EntryScore(_, _, _, _, _)
EntryScore(keywords, normalizedEntryQ, k, score, matched) ==
    IF k > Len(keywords) THEN (IF matched >= 2 THEN score + 5 ELSE score)
    ELSE IF Includes(normalizedEntryQ, keywords[k])
    THEN EntryScore(keywords, normalizedEntryQ, k + 1, score + Len(keywords[k]), matched + 1)
    ELSE EntryScore(keywords, normalizedEntryQ, k + 1, score, matched)

\* The threshold as README_RAG.md states it
AcceptFromTen(bestMatch, bestScore) == IF bestScore >= 10 /\ bestMatch # 0 THEN bestMatch ELSE 0

\* return bestScore >= 8 && bestMatch ? bestMatch : null
Accept(bestMatch, bestScore) == IF bestScore >= 8 /\ bestMatch # 0 THEN bestMatch ELSE 0

\* The for loop over KNOWLEDGE from entry e on; an entry is its index, 0 is null
RECURSIVE MatchLoop(_, _, _, _, _, _)
MatchLoop(normalizedQuestion, keywords, phrases, e, bestMatch, bestScore) ==
    IF e > Len(KNOWLEDGE) THEN Accept(bestMatch, bestScore)
    ELSE LET normalizedEntryQ == toLowerCase(EntryQ[e])
             score == EntryScore(keywords, normalizedEntryQ, 1, 0, 0)
         IN  IF normalizedEntryQ = normalizedQuestion THEN e
             ELSE IF Includes(normalizedEntryQ, normalizedQuestion)
                     \/ Includes(normalizedQuestion, normalizedEntryQ) THEN e
             ELSE IF \E p \in 1..Len(phrases) : Includes(normalizedEntryQ, phrases[p]) THEN e
             ELSE IF score > bestScore
                  THEN MatchLoop(normalizedQuestion, keywords, phrases, e + 1, e, score)
                  ELSE MatchLoop(normalizedQuestion, keywords, phrases, e + 1, bestMatch, bestScore)

\* findBestMatch(question)
findBestMatch(text) ==
    LET normalizedQuestion == trim(toLowerCase(text))
        questionKeywords == SelectSeq(Split(normalizedQuestion, <<>>), IsKeyword)
        phrases == [k \in 1..(Len(questionKeywords) - 1) |->
                       questionKeywords[k] \o <<" ">> \o questionKeywords[k + 1]]
    IN  IF normalizedQuestion = <<>> THEN 0
        ELSE MatchLoop(normalizedQuestion, questionKeywords, phrases, 1, 0, 0)

\* The body of a POST /rag/preview: whether it is JSON, whether its question is a
\* string, and the string
PreviewBody(j, isString, t) == [json |-> j, text |-> t, string |-> isString]

PreviewBodies ==
    {PreviewBody(FALSE, FALSE, <<>>), PreviewBody(TRUE, FALSE, <<>>)}
    \cup {PreviewBody(TRUE, TRUE, t) : t \in Questions(MaxChunks)}

\* A request and its answer; match is what findBestMatch returned, -1 if it was
\* not called
Exchange(b, st, k, i, m) == [id |-> i, status |-> st, body |-> b, kind |-> k, match |-> m]

\* ragRouter.post("/preview")
PreviewHandler(b) ==
    IF ~b.json THEN Exchange(b, 400, "error", "", -1)
    ELSE IF ~b.string \/ b.text = <<>> \/ trim(b.text) = <<>> THEN Exchange(b, 400, "error", "", -1)
    ELSE LET match == findBestMatch(trim(b.text))
         IN  IF match = 0 THEN Exchange(b, 404, "no_match", "", match)
             ELSE Exchange(b, 200, "preview", KNOWLEDGE[match].id, match)

\* Time in units of six hours; a year of 365 days
UnitsPerDay == 4

DaysPerYear == 365

\* The offsets from UTC a server can run at, in units: UTC-6, UTC, UTC+6
TimeZones == {-1, 0, 1}

\* Clock readings from 31 December on, as instants since 1 January of year 0
Instants ==
    LET start == (DaysPerYear - 1) * UnitsPerDay
    IN  start..(start + MaxRagDays * UnitsPerDay - 1)

\* date.getFullYear(): the year of the local date
getFullYear(u, z) == ((u + z) \div UnitsPerDay) \div DaysPerYear

\* new Date(year, 0, 0).getTime(): local midnight of the day before 1 January
DayZero(y, z) == (y * DaysPerYear - 1) * UnitsPerDay - z

\* dailyPick(dateISO), as the index of the entry in KNOWLEDGE
dailyPick(u, z) ==
    LET dayOfYear == (u - DayZero(getFullYear(u, z), z)) \div UnitsPerDay
        index == dayOfYear % Len(KNOWLEDGE)
    IN  index + 1

DailyAnswer(u, p) == [now |-> u, pick |-> p]

RagInit ==
    /\ zone = <<>>
    /\ preview = <<>>
    /\ daily = <<>>
    /\ dailyBefore = <<>>

\* POST /rag/preview arrives and is answered
PostRagPreview ==
    /\ preview = <<>>
    /\ \E b \in PreviewBodies : preview' = <<PreviewHandler(b)>>
    /\ UNCHANGED <<zone, daily, dailyBefore>>
    /\ UNCHANGED <<serverVars, fetchVars, clientVars, questVars>>

\* The answer has been sent
PreviewSent ==
    /\ preview # <<>>
    /\ preview' = <<>>
    /\ UNCHANGED <<zone, daily, dailyBefore>>
    /\ UNCHANGED <<serverVars, fetchVars, clientVars, questVars>>

\* The server process starts, in the time zone of its machine
Boot ==
    /\ zone = <<>>
    /\ \E z \in TimeZones : zone' = <<z>>
    /\ UNCHANGED <<preview, daily, dailyBefore>>
    /\ UNCHANGED <<serverVars, fetchVars, clientVars, questVars>>

\* ragRouter.get("/daily"): dailyPick(new Date().toISOString())
GetRagDaily ==
    /\ zone # <<>>
    /\ \E u \in Instants : daily' = <<DailyAnswer(u, dailyPick(u, zone[1]))>>
    /\ dailyBefore' = daily
    /\ UNCHANGED <<zone, preview>>
    /\ UNCHANGED <<serverVars, fetchVars, clientVars, questVars>>

NextLookup ==
    \/ PostRagPreview
    \/ PreviewSent

NextDaily ==
    \/ Boot
    \/ GetRagDaily

----------------------------------------------------------------------------
(* Claims about the knowledge lookup *)

NormalizedEntryQ(e) == toLowerCase(EntryQ[e])

Entries == 1..Len(KNOWLEDGE)

\* The query the route hands to findBestMatch, in lower case
Asked == toLowerCase(trim(preview[1].body.text))

AskedKeywords == SelectSeq(Split(Asked, <<>>), IsKeyword)

ByEquality == {e \in Entries : NormalizedEntryQ(e) = Asked}

ByContainment ==
    {e \in Entries : Includes(NormalizedEntryQ(e), Asked) \/ Includes(Asked, NormalizedEntryQ(e))}

ByPhrase ==
    {e \in Entries : \E k \in 1..(Len(AskedKeywords) - 1) :
        Includes(NormalizedEntryQ(e), AskedKeywords[k] \o <<" ">> \o AskedKeywords[k + 1])}

\* C13: findBestMatch applies its rules in precedence order over the whole
\* knowledge base: a record whose question equals the normalized query is
\* returned whenever there is one; otherwise a record matching by containment;
\* otherwise a record containing a two-word phrase of the filtered query; a
\* keyword-score result only when no record matches by those three rules.
C13_Precedence ==
    (preview # <<>> /\ preview[1].match >= 0) =>
        IF ByEquality # {} THEN preview[1].match \in ByEquality
        ELSE IF ByContainment # {} THEN preview[1].match \in ByContainment
        ELSE IF ByPhrase # {} THEN preview[1].match \in ByPhrase
        ELSE TRUE

RECURSIVE SumOfLengths(_, _)
SumOfLengths(ws, ks) ==
    IF ks = {} THEN 0
    ELSE LET k == CHOOSE x \in ks : TRUE IN Len(ws[k]) + SumOfLengths(ws, ks \ {k})

\* The score the claim gives a record
ClaimedScore(e) ==
    LET found == {k \in 1..Len(AskedKeywords) : Includes(NormalizedEntryQ(e), AskedKeywords[k])}
    IN  SumOfLengths(AskedKeywords, found) + (IF Cardinality(found) >= 2 THEN 5 ELSE 0)

UtcDate(u) == u \div UnitsPerDay

\* C15: dailyPick has date-only granularity: two timestamps of the same UTC date
\* get the same entry, and the entry is KNOWLEDGE[dayOfYear mod KNOWLEDGE.length]
\* for the day of the year of that date.
C15_DateOnly ==
    daily # <<>> =>
        /\ daily[1].pick = (((UtcDate(daily[1].now) % DaysPerYear) + 1) % Len(KNOWLEDGE)) + 1
        /\ (dailyBefore # <<>> /\ UtcDate(dailyBefore[1].now) = UtcDate(daily[1].now))
              => dailyBefore[1].pick = daily[1].pick

----------------------------------------------------------------------------
(* web/components/quiz/QuizShell.tsx, PaymentGate.tsx and the useHotkeys hook: the
   quiz client. Handlers read the values captured at the last render. *)

TIMER_SECONDS == 10

TOTAL_QUESTIONS == 10

QuestionPool == 1..MaxQuestions

QuizSession(t, c, w, n, a) ==
    [correct |-> c, topic |-> t, wrong |-> w, questionsAnswered |-> n, askedQuestionIds |-> a]

\* quizSession === null
NoSession == QuizSession("", 0, 0, 0, {})

\* What a render captures for the handlers and effects it creates
Snapshot ==
    [state |-> state, quizSession |-> quizSession, question |-> question, selected |-> selected,
     paying |-> paying]

\* A submit in flight: handleSubmit's closure, and whether optionId is "timeout"
Submit(q, ss, to) == [quizSession |-> ss, question |-> q, timeout |-> to]

\* A payment in flight: the PaymentGate's props, and whether that gate is still mounted
Payment(q, ss, mt) == [quizSession |-> ss, question |-> q, mounted |-> mt]

\* setTimeout delays, in seconds
Delay(t) == IF t = "paymentRequired" THEN 2 ELSE 3

\* A timer set earlier with a delay no longer than this one's fires first
CanFire(i) == \A k \in 1..(i - 1) : Delay(timers[k]) > Delay(timers[i])

Remove(seq, i) == SubSeq(seq, 1, i - 1) \o SubSeq(seq, i + 1, Len(seq))

ClientInit ==
    /\ state = "WELCOME"
    /\ quizSession = NoSession
    /\ question = 0
    /\ selected = FALSE
    /\ timeLeft = TIMER_SECONDS
    /\ isLoadingQuestion = FALSE
    /\ currentSession = NoSession
    /\ rendered = [state |-> "WELCOME", quizSession |-> NoSession, question |-> 0,
                   selected |-> FALSE, paying |-> FALSE]
    /\ timers = <<>>
    /\ submits = <<>>
    /\ payments = <<>>
    /\ paying = FALSE
    /\ owed = {}

\* loadQuestion(), up to the first await of the load it starts
LoadQuestion ==
    IF isLoadingQuestion \/ quizSession = NoSession
    THEN UNCHANGED <<state, isLoadingQuestion, currentSession>>
    ELSE IF quizSession.questionsAnswered >= TOTAL_QUESTIONS
    THEN state' = "COMPLETED" /\ UNCHANGED <<isLoadingQuestion, currentSession>>
    ELSE /\ isLoadingQuestion' = TRUE
         /\ currentSession' = quizSession
         /\ state' = "LOADING_QUESTION"

\* handleNext(); ran tells whether React has run the setQuizSession updater by the
\* time shouldLoadNext is read (it runs the updater at once only when the
\* component has no update pending)
HandleNext(ran) ==
    IF quizSession = NoSession
    THEN UNCHANGED <<state, isLoadingQuestion, currentSession, selected>>
    ELSE IF quizSession.questionsAnswered >= TOTAL_QUESTIONS
    THEN state' = "COMPLETED" /\ UNCHANGED <<isLoadingQuestion, currentSession, selected>>
    ELSE /\ selected' = FALSE
         /\ IF ran THEN LoadQuestion
            ELSE UNCHANGED <<state, isLoadingQuestion, currentSession>>

\* The gates of the payments in flight are no longer mounted
Unmount(ps) == [i \in 1..Len(ps) |-> [ps[i] EXCEPT !.mounted = FALSE]]

\* React renders the updates of a click or key handler before the event ends; the
\* render that enters IDLE, whose effect loads a question, is left to Render
SyncRender ==
    IF state' = "IDLE" /\ rendered.state # "IDLE"
    THEN UNCHANGED <<rendered, paying, payments>>
    ELSE /\ IF state' = "PAYMENT_REQUIRED" /\ question' # 0
            THEN UNCHANGED <<paying, payments>>
            ELSE paying' = FALSE /\ payments' = Unmount(payments)
         /\ rendered' = Snapshot'

\* WelcomeScreen onStart
HandleStart ==
    /\ rendered.state = "WELCOME"
    /\ state = "WELCOME"
    /\ resetQuestState
    /\ quizSession' = QuizSession("Solana Basics", 0, 0, 0, {})
    /\ state' = "IDLE"
    /\ UNCHANGED <<question, selected, timeLeft, isLoadingQuestion, currentSession, timers,
                   submits, owed>>
    /\ SyncRender
    /\ UNCHANGED <<serverVars, fetchVars, questHistory, ragVars>>

\* The render that follows the updates of a timer callback or of a handler resumed
\* after an await, and its effects: the effect on [state] that loads a question in
\* IDLE; a PaymentGate that is not rendered is unmounted
Render ==
    /\ rendered # Snapshot
    /\ IF state = "IDLE" /\ rendered.state # "IDLE" /\ quizSession # NoSession /\ ~isLoadingQuestion
       THEN LoadQuestion
       ELSE UNCHANGED <<state, isLoadingQuestion, currentSession>>
    /\ IF state = "PAYMENT_REQUIRED" /\ question # 0
       THEN UNCHANGED <<paying, payments>>
       ELSE /\ paying' = FALSE
            /\ payments' = Unmount(payments)
    /\ rendered' = [Snapshot EXCEPT !.paying = paying']
    /\ UNCHANGED <<quizSession, question, selected, timeLeft, timers, submits, owed>>
    /\ UNCHANGED <<serverVars, fetchVars, questVars, ragVars>>

\* The load in flight ends, after the render its start left pending: an unasked
\* question arrives, or twenty fetches brought only asked ones, or the fetch failed
LoadDone ==
    /\ isLoadingQuestion
    /\ rendered = Snapshot
    /\ isLoadingQuestion' = FALSE
    /\ \/ \E id \in QuestionPool \ currentSession.askedQuestionIds :
             /\ quizSession' = [currentSession EXCEPT !.askedQuestionIds = @ \cup {id}]
             /\ question' = id
             /\ timeLeft' = TIMER_SECONDS
             /\ selected' = FALSE
             /\ state' = "SHOWING_QUESTION"
       \/ /\ currentSession.askedQuestionIds # {}
          /\ state' = "COMPLETED"
          /\ UNCHANGED <<quizSession, question, timeLeft, selected>>
       \/ /\ state' = "IDLE"
          /\ UNCHANGED <<quizSession, question, timeLeft, selected>>
    /\ UNCHANGED <<currentSession, rendered, timers, submits, payments, paying, owed>>
    /\ UNCHANGED <<serverVars, fetchVars, questVars, ragVars>>

\* handleSubmit(optionId), up to the fetch it sends; its guards read the closure;
\* optionId null is sent as "timeout"
HandleSubmit(optionId) ==
    IF rendered.question = 0 \/ rendered.quizSession = NoSession
       \/ rendered.state # "SHOWING_QUESTION"
    THEN UNCHANGED <<state, submits>>
    ELSE /\ state' = "SUBMITTING"
         /\ submits' = Append(submits, Submit(rendered.question, rendered.quizSession,
                                              optionId = "null"))

\* An option is clicked, or chosen with the keys 1 to 4; most bounds the submits
\* in flight
Select(most) ==
    /\ rendered.state = "SHOWING_QUESTION"
    /\ rendered.question # 0
    /\ Len(submits) < most
    /\ selected' = TRUE
    /\ HandleSubmit("option")
    /\ UNCHANGED <<quizSession, question, timeLeft, isLoadingQuestion, currentSession, timers,
                   owed>>
    /\ SyncRender
    /\ UNCHANGED <<serverVars, fetchVars, questVars, ragVars>>

\* A countdown whose last tick leaves timeLeft at 0 and submits nothing
CountdownTickNoSubmit(most) ==
    /\ rendered = Snapshot
    /\ rendered.state = "SHOWING_QUESTION"
    /\ timeLeft > 0
    /\ IF timeLeft <= 1
       THEN /\ timeLeft' = 0
            /\ UNCHANGED <<state, submits>>
       ELSE /\ timeLeft' = timeLeft - 1
            /\ UNCHANGED <<state, submits>>
    /\ UNCHANGED <<quizSession, question, selected, isLoadingQuestion, currentSession, rendered,
                   timers, payments, paying, owed>>
    /\ UNCHANGED <<serverVars, fetchVars, questVars, ragVars>>

\* The countdown interval installed by the last render ticks, a second after that
\* render and so with no render pending: the updater of setTimeLeft takes one
\* second off, and the tick that finds prev <= 1 submits the
\* timeout and leaves timeLeft at 0
CountdownTick(most) ==
    /\ rendered = Snapshot
    /\ rendered.state = "SHOWING_QUESTION"
    /\ timeLeft > 0
    /\ IF timeLeft <= 1
       THEN /\ timeLeft' = 0
            /\ IF rendered.question # 0 /\ ~rendered.selected
               THEN Len(submits) < most /\ HandleSubmit("null")
               ELSE UNCHANGED <<state, submits>>
       ELSE /\ timeLeft' = timeLeft - 1
            /\ UNCHANGED <<state, submits>>
    /\ UNCHANGED <<quizSession, question, selected, isLoadingQuestion, currentSession, rendered,
                   timers, payments, paying, owed>>
    /\ UNCHANGED <<serverVars, fetchVars, questVars, ragVars>>

\* The answer to a POST /quiz/submit arrives, after the render the handler left
\* pending: correct (never for "timeout"), paymentRequired, or a failure
SubmitResponse ==
    \E i \in 1..Len(submits) :
       LET sub == submits[i]
           updated == [sub.quizSession EXCEPT !.correct = @ + 1, !.questionsAnswered = @ + 1]
       IN  /\ rendered = Snapshot
           /\ submits' = Remove(submits, i)
           /\ \/ /\ ~sub.timeout
                 /\ Len(timers) < MaxTimers
                 /\ updated.questionsAnswered <= MaxAnswered
                 /\ state' = "CORRECT"
                 /\ saveState(credit(loadState))
                 /\ quizSession' = updated
                 /\ timers' = Append(timers, IF updated.questionsAnswered >= TOTAL_QUESTIONS
                                             THEN "completed" ELSE "handleNext")
                 /\ UNCHANGED owed
              \/ /\ Len(timers) < MaxTimers
                 /\ state' = "WRONG_ANSWER"
                 /\ saveState(penalise(loadState))
                 /\ timers' = Append(timers, "paymentRequired")
                 /\ owed' = owed \cup {sub.question}
                 /\ UNCHANGED quizSession
              \/ /\ state' = "IDLE"
                 /\ UNCHANGED <<quizSession, timers, owed, quest>>
           /\ UNCHANGED <<question, selected, timeLeft, isLoadingQuestion, currentSession,
                          rendered, payments, paying>>
           /\ UNCHANGED <<serverVars, fetchVars, questHistory, ragVars>>

\* A setTimeout callback runs, seconds after it was set and so after any pending
\* render; no timer is ever cancelled
TimerFires ==
    \E i \in 1..Len(timers) :
       /\ CanFire(i)
       /\ rendered = Snapshot
       /\ timers' = Remove(timers, i)
       /\ CASE timers[i] = "handleNext" -> \E ran \in BOOLEAN : HandleNext(ran)
            [] timers[i] = "completed" ->
                 state' = "COMPLETED" /\ UNCHANGED <<isLoadingQuestion, currentSession, selected>>
            [] OTHER ->
                 state' = "PAYMENT_REQUIRED" /\ UNCHANGED <<isLoadingQuestion, currentSession, selected>>
       /\ UNCHANGED <<quizSession, question, timeLeft, rendered, submits, payments, paying, owed>>
       /\ UNCHANGED <<serverVars, fetchVars, questVars, ragVars>>

\* The key N or Enter: useHotkeys calls onNext
KeyNext ==
    /\ rendered.state \in {"SHOWING_EXPLANATION", "CORRECT"}
    /\ \E ran \in BOOLEAN : HandleNext(ran)
    /\ UNCHANGED <<quizSession, question, timeLeft, timers, submits, owed>>
    /\ SyncRender
    /\ UNCHANGED <<serverVars, fetchVars, questVars, ragVars>>

\* PaymentGate handlePay, up to the await of wrapFetchWithPaymentSolana; the button
\* is disabled while the gate as rendered is paying
HandlePay ==
    /\ rendered.state = "PAYMENT_REQUIRED"
    /\ rendered.question # 0
    /\ ~rendered.paying
    /\ Len(payments) < MaxInFlight
    /\ UNCHANGED <<state, quizSession, question, selected, timeLeft, isLoadingQuestion,
                   currentSession, timers, submits, owed>>
    /\ IF state = "PAYMENT_REQUIRED" /\ question # 0
       THEN /\ paying' = TRUE
            /\ payments' = Append(payments, Payment(rendered.question, rendered.quizSession, TRUE))
            /\ rendered' = Snapshot'
       ELSE /\ paying' = FALSE
            /\ payments' = Unmount(Append(payments,
                                          Payment(rendered.question, rendered.quizSession, TRUE)))
            /\ rendered' = IF state = "IDLE" /\ rendered.state # "IDLE" THEN rendered ELSE Snapshot'
    /\ UNCHANGED <<serverVars, fetchVars, questVars, ragVars>>

\* handlePay resumes, after any pending render: response.ok calls onComplete, that
\* is handlePaymentComplete; any other response, or a rejection, only sets the error
PaymentResult ==
    \E i \in 1..Len(payments) :
       LET pay == payments[i]
           updated == [pay.quizSession EXCEPT !.wrong = @ + 1, !.questionsAnswered = @ + 1]
       IN  /\ rendered = Snapshot
           /\ payments' = Remove(payments, i)
           /\ paying' = IF pay.mounted THEN FALSE ELSE paying
           /\ \/ /\ pay.quizSession # NoSession
                 /\ Len(timers) < MaxTimers
                 /\ updated.questionsAnswered <= MaxAnswered
                 /\ state' = "SHOWING_EXPLANATION"
                 /\ quizSession' = updated
                 /\ timers' = Append(timers, IF updated.questionsAnswered >= TOTAL_QUESTIONS
                                             THEN "completed" ELSE "handleNext")
                 /\ owed' = owed \ {pay.question}
              \/ UNCHANGED <<state, quizSession, timers, owed>>
           /\ UNCHANGED <<question, selected, timeLeft, isLoadingQuestion, currentSession,
                          rendered, submits>>
           /\ UNCHANGED <<serverVars, fetchVars, questVars, ragVars>>

NextClient ==
    \/ HandleStart
    \/ Render
    \/ LoadDone
    \/ Select(MaxInFlight)
    \/ CountdownTick(MaxInFlight)
    \/ SubmitResponse
    \/ TimerFires
    \/ KeyNext
    \/ HandlePay
    \/ PaymentResult

\* The same steps, with room for the submits of handlers that race
NextRacing ==
    \/ HandleStart
    \/ Render
    \/ LoadDone
    \/ Select(MaxRacing)
    \/ CountdownTick(MaxRacing)
    \/ SubmitResponse
    \/ TimerFires
    \/ KeyNext
    \/ HandlePay
    \/ PaymentResult

----------------------------------------------------------------------------
(* Claims about the quiz client *)

StaleAdvanceWhileOwed ==
    /\ owed # {}
    /\ isLoadingQuestion
    /\ state = "LOADING_QUESTION"
    /\ quizSession.correct = 1
    /\ timers = <<"paymentRequired">>
    /\ submits = <<>>
    /\ payments = <<>>

\* C17: a started quiz consists of 10 questions: the client is in the COMPLETED
\* state only when questionsAnswered = 10.
C17_TenQuestions ==
    state = "COMPLETED" => quizSession.questionsAnswered = 10

\* C18: when the payment for a wrong answer completes (/quiz/settle answered 200
\* with xp: 5 and handlePaymentComplete has run), the stored XP is 5 higher than
\* it was just before.
C18_PaidXp ==
    [][(Len(payments') < Len(payments) /\ timers' # timers /\ state' = "SHOWING_EXPLANATION")
          => quest' = <<[loadState EXCEPT !.xp = @ + 5]>>]_vars

\* C26: the client sends at most one POST /quiz/submit per displayed question,
\* whatever the order of an option click, an option hotkey and the timer expiry,
\* also when two of them run before the component re-renders: no two submits in
\* flight are for the same question.
C26_OneSubmitPerQuestion ==
    \A i, j \in 1..Len(submits) : i # j => submits[i].question # submits[j].question

\* C27: under fair timer ticks a displayed question never stays in SHOWING_QUESTION
\* forever: when no option is selected and the countdown reaches 0 the client
\* submits "timeout" for that question, an answer that never comes back correct;
\* the countdown goes down by exactly 1 per tick and never below 0.
C27_Countdown ==
    /\ [](timeLeft \in 0..TIMER_SECONDS)
    /\ [][timeLeft' < timeLeft => timeLeft' = timeLeft - 1]_vars
    /\ [][(timeLeft = 1 /\ timeLeft' = 0 /\ state = "SHOWING_QUESTION" /\ ~selected)
            => /\ state' = "SUBMITTING"
               /\ Len(submits') = Len(submits) + 1
               /\ submits'[Len(submits')].question = question
               /\ submits'[Len(submits')].timeout]_vars
    /\ [][((\A i \in 1..Len(submits) : submits[i].timeout) /\ Len(submits') < Len(submits))
            => state' # "CORRECT"]_vars
    /\ (state = "SHOWING_QUESTION") ~> (state # "SHOWING_QUESTION")

\* The countdown of a question nobody answered has run out, and its timeout has
\* come back as a wrong answer
C27_Witness ==
    /\ timeLeft = 0
    /\ state = "WRONG_ANSWER"
    /\ ~selected
    /\ question \in owed
    /\ submits = <<>>

\* C29: a displayed question is replaced only after a submit for it has been sent
\* and its result handled: loadQuestion never starts while the state is
\* SHOWING_QUESTION or SUBMITTING, whatever the order of the N / Enter key and the
\* 3 second auto-advance timers, which are never cancelled.
C29_NoLoadWhileShowing ==
    [][(isLoadingQuestion' /\ ~isLoadingQuestion)
          => state \notin {"SHOWING_QUESTION", "SUBMITTING"}]_vars

\* C30: within one quiz session no question id is shown twice: a question that
\* reaches SHOWING_QUESTION has an id that was not in askedQuestionIds before,
\* askedQuestionIds only grows, and correct + wrong = questionsAnswered <= 10 in
\* every reachable state.
C30_NoRepeat ==
    /\ [](/\ quizSession.correct + quizSession.wrong = quizSession.questionsAnswered
          /\ quizSession.questionsAnswered <= TOTAL_QUESTIONS)
    /\ [][quizSession.askedQuestionIds \subseteq quizSession'.askedQuestionIds]_vars
    /\ [][(state' = "SHOWING_QUESTION" /\ (state # "SHOWING_QUESTION" \/ question' # question))
            => question' \notin quizSession.askedQuestionIds]_vars

----------------------------------------------------------------------------
(* Specifications *)

Init == ServerInit /\ FetchInit /\ ClientInit /\ QuestInit /\ RagInit

\* The resource server answering requests one at a time
SpecServer == Init /\ [][NextServer]_vars

\* The resource server with the handlers of several requests suspended at once
SpecConcurrent == Init /\ [][NextConcurrent]_vars

\* One call of wrapFetchWithPaymentSolana against any server, wallet and RPC node
SpecFetch == Init /\ [][NextFetch]_vars

\* Every await of the wrapper settles: a fetch, an RPC call, a wallet prompt and a
\* one second timer all end
FairSpecFetch == SpecFetch /\ WF_vars(NextFetch)

\* One player at the quiz, with any timing of answers, timers and key presses
SpecClient == Init /\ [][NextClient]_vars

\* The same player, where what the browser has scheduled does happen: the countdown
\* interval ticks, React renders, fetches settle and timers fire
FairSpecClient ==
    /\ SpecClient
    /\ WF_vars(CountdownTick(MaxInFlight))
    /\ WF_vars(Render)
    /\ WF_vars(LoadDone)
    /\ WF_vars(SubmitResponse)
    /\ WF_vars(TimerFires)
    /\ WF_vars(PaymentResult)

\* The same player when two submits can be in flight at once
SpecRacing == Init /\ [][NextRacing]_vars

\* The progress store under any sequence of unlocks, daily completions and resets
SpecQuest == Init /\ [][NextQuest]_vars

\* The progress store written by the lookup card, the daily quest and the quiz
SpecProgress == Init /\ [][NextProgress]_vars

\* POST /rag/preview requests, answered one at a time
SpecLookup == Init /\ [][NextLookup]_vars

\* GET /rag/daily requests to a server started in any time zone
SpecDaily == Init /\ [][NextDaily]_vars

====
